---- MODULE Spec2Model ----
(***************************************************************************)
(* The mode-configuration store of query_gguf (src/query_gguf/src/main.rs):*)
(* the line-oriented field reader, the pipe-delimited mode record codec    *)
(* and save_mode_to_config's whole-file rewrite.                           *)
(*                                                                         *)
(* Text is modelled character by character: a Rust String / &str is a      *)
(* sequence of one-character strings, so that splitting, trimming, quote   *)
(* stripping and number parsing are computed as the code computes them.    *)
(***************************************************************************)
EXTENDS Integers, Sequences, FiniteSets, TLC

VARIABLES
    cpus,   \* what std::thread::available_parallelism() reports (0: detection failed)
    doc,    \* content of <home>/query_gguf/query_gguf_config.toml
    prev,   \* content of the file before the last operation
    op,     \* the last operation: its kind, inputs and return value
    nops,   \* number of file-changing operations performed so far
    procs,  \* the running invocations of the tool: position, locals, exit status
    files   \* the file system around the configuration file: directories, backups

vars == <<cpus, doc, prev, op, nops, procs, files>>

----------------------------------------------------------------------------
(* Bounds of the model *)

\* file-changing operations (saves and hand edits) per behaviour
MaxOps == 3
\* largest CPU count the environment reports
MaxCpus == 3
\* pipe-delimited segments of a hand-written mode value
MaxSegs == 3

----------------------------------------------------------------------------
(* str primitives of the Rust standard library, as the code uses them *)

IsWhite(c) == c \in {" ", "\t"}

Digits == <<"0", "1", "2", "3", "4", "5", "6", "7", "8", "9">>

IsDigit(c) == \E d \in 1..10 : Digits[d] = c

DigitVal(c) == (CHOOSE d \in 1..10 : Digits[d] = c) - 1

\* str::starts_with(&str)
StartsWith(s, p) == Len(s) >= Len(p) /\ SubSeq(s, 1, Len(p)) = p

\* str::contains(char)
Contains(s, c) == \E i \in 1..Len(s) : s[i] = c

\* position of the first occurrence of c in s, 0 when there is none
FirstIndex(s, c) ==
    IF Contains(s, c)
    THEN CHOOSE i \in 1..Len(s) : s[i] = c /\ \A j \in 1..(i - 1) : s[j] # c
    ELSE 0

\* str::trim_start
TrimStart(s) ==
    IF \A i \in 1..Len(s) : IsWhite(s[i]) THEN <<>>
    ELSE LET k == CHOOSE i \in 1..Len(s) :
                      ~IsWhite(s[i]) /\ \A j \in 1..(i - 1) : IsWhite(s[j])
         IN SubSeq(s, k, Len(s))

\* str::trim_end
TrimEnd(s) ==
    IF \A i \in 1..Len(s) : IsWhite(s[i]) THEN <<>>
    ELSE LET k == CHOOSE i \in 1..Len(s) :
                      ~IsWhite(s[i]) /\ \A j \in (i + 1)..Len(s) : IsWhite(s[j])
         IN SubSeq(s, 1, k)

\* str::trim
Trim(s) == TrimEnd(TrimStart(s))

\* str::trim_matches(char): every leading and every trailing c is removed
TrimMatches(s, c) ==
    IF \A i \in 1..Len(s) : s[i] = c THEN <<>>
    ELSE LET a == CHOOSE i \in 1..Len(s) : s[i] # c /\ \A j \in 1..(i - 1) : s[j] = c
             b == CHOOSE i \in 1..Len(s) : s[i] # c /\ \A j \in (i + 1)..Len(s) : s[j] = c
         IN SubSeq(s, a, b)

\* str::trim_start_matches(&str): the prefix p is removed as often as it matches
RECURSIVE TrimStartMatches(_, _)
TrimStartMatches(s, p) ==
    IF Len(p) > 0 /\ StartsWith(s, p)
    THEN TrimStartMatches(SubSeq(s, Len(p) + 1, Len(s)), p)
    ELSE s

\* str::strip_prefix: <<rest>> for Some(rest), <<>> for None
StripPrefix(s, p) ==
    IF StartsWith(s, p) THEN <<SubSeq(s, Len(p) + 1, Len(s))>> ELSE <<>>

\* position of the first occurrence of c in s at or after from, Len(s) + 1 when none
NextIndex(s, c, from) ==
    CHOOSE i \in from..(Len(s) + 1) :
        /\ i = Len(s) + 1 \/ s[i] = c
        /\ \A j \in from..(i - 1) : s[j] # c

\* str::split(char).collect(): the pieces between the occurrences of c
RECURSIVE SplitFrom(_, _, _)
SplitFrom(s, c, from) ==
    LET i == NextIndex(s, c, from)
    IN IF i > Len(s) THEN <<SubSeq(s, from, Len(s))>>
       ELSE <<SubSeq(s, from, i - 1)>> \o SplitFrom(s, c, i + 1)

Split(s, c) == SplitFrom(s, c, 1)

\* str::splitn(2, char).collect(): cut at the first c only
SplitN2(s, c) ==
    LET i == FirstIndex(s, c)
    IN IF i = 0 THEN <<s>>
       ELSE <<SubSeq(s, 1, i - 1), SubSeq(s, i + 1, Len(s))>>

\* A text that is held and rewritten as a whole (the content of the file, the
\* String save_mode_to_config builds) is kept as its line-feed terminated lines
\* and the unterminated rest after the last line feed: every text has exactly
\* one such form, and the text is the lines, each followed by "\n", then the rest.
TextOf(chars) ==
    LET pieces == Split(chars, "\n")
    IN [lines |-> SubSeq(pieces, 1, Len(pieces) - 1), open |-> pieces[Len(pieces)]]

RECURSIVE CharsOfLines(_)
CharsOfLines(ls) ==
    IF Len(ls) = 0 THEN <<>> ELSE ls[1] \o <<"\n">> \o CharsOfLines(Tail(ls))

\* the characters of a text
CharsOf(text) == CharsOfLines(text.lines) \o text.open

\* String::push_str
PushStr(text, chars) ==
    LET pieces == Split(chars, "\n")
        k == Len(pieces)
    IN IF k = 1 THEN [text EXCEPT !.open = @ \o pieces[1]]
       ELSE [lines |-> text.lines \o <<text.open \o pieces[1]>> \o SubSeq(pieces, 2, k - 1),
             open  |-> pieces[k]]

\* str::lines(): the pieces between line feeds, without a final empty piece
Lines(text) ==
    IF text.open = <<>> THEN text.lines ELSE Append(text.lines, text.open)

\* [&str]::join("\n") of lines, as a text
JoinLines(ls) ==
    IF Len(ls) = 0 THEN [lines |-> <<>>, open |-> <<>>]
    ELSE [lines |-> SubSeq(ls, 1, Len(ls) - 1), open |-> ls[Len(ls)]]

\* [&str]::join(sep)
RECURSIVE Join(_, _)
Join(pieces, sep) ==
    IF Len(pieces) = 0 THEN <<>>
    ELSE IF Len(pieces) = 1 THEN pieces[1]
    ELSE pieces[1] \o sep \o Join(Tail(pieces), sep)

----------------------------------------------------------------------------
(* Parsing and formatting of numbers and booleans (str::parse, Display).   *)
(* A parse result is <<v>> for Ok(v) and <<>> for Err.                     *)

\* value of a non-empty string of decimal digits
RECURSIVE DigitsValue(_)
DigitsValue(s) ==
    IF Len(s) = 0 THEN 0
    ELSE 10 * DigitsValue(SubSeq(s, 1, Len(s) - 1)) + DigitVal(s[Len(s)])

AllDigits(s) == Len(s) > 0 /\ \A i \in 1..Len(s) : IsDigit(s[i])

\* longest digit string the model evaluates; longer ones are treated as overflowing
\* (true of i32, and outside the inputs of the model for usize)
MaxDigits == 9

\* str::parse::<usize>(): an optional '+', then digits
ParseUsize(s) ==
    LET body == IF Len(s) > 0 /\ s[1] = "+" THEN Tail(s) ELSE s
    IN IF AllDigits(body) /\ Len(body) <= MaxDigits THEN <<DigitsValue(body)>> ELSE <<>>

\* str::parse::<i32>(): an optional sign, then digits (up to MaxDigits digits
\* every value fits the 32-bit range)
ParseI32(s) ==
    LET neg  == Len(s) > 0 /\ s[1] = "-"
        body == IF Len(s) > 0 /\ s[1] \in {"+", "-"} THEN Tail(s) ELSE s
    IN IF AllDigits(body) /\ Len(body) <= MaxDigits
       THEN LET v == DigitsValue(body)
            IN IF neg THEN <<0 - v>> ELSE <<v>>
       ELSE <<>>

\* str::parse::<bool>(): exactly "true" or "false"
ParseBool(s) ==
    IF s = <<"t", "r", "u", "e">> THEN <<TRUE>>
    ELSE IF s = <<"f", "a", "l", "s", "e">> THEN <<FALSE>>
    ELSE <<>>

\* An f32 written as a short decimal is the number m / 10^e; it is kept in
\* lowest terms (m not divisible by 10 unless e = 0), which is the value the
\* shortest-round-trip Display of Rust prints again.
RECURSIVE Pow10(_)
Pow10(e) == IF e = 0 THEN 1 ELSE 10 * Pow10(e - 1)

RECURSIVE NormDec(_, _)
NormDec(m, e) ==
    IF e > 0 /\ m % 10 = 0 THEN NormDec(m \div 10, e - 1) ELSE [m |-> m, e |-> e]

\* significant digits of a decimal literal the model covers (an f32 keeps 6)
MaxSig == 6

\* str::parse::<f32>() on decimal literals: [sign] digits [. digits] or [sign] . digits
ParseF32(s) ==
    LET neg  == Len(s) > 0 /\ s[1] = "-"
        body == IF Len(s) > 0 /\ s[1] \in {"+", "-"} THEN Tail(s) ELSE s
        cut  == SplitN2(body, ".")
        ip   == cut[1]
        fp   == IF Len(cut) = 2 THEN cut[2] ELSE <<>>
        okI  == ip = <<>> \/ AllDigits(ip)
        okF  == fp = <<>> \/ AllDigits(fp)
    IN IF okI /\ okF /\ (ip # <<>> \/ fp # <<>>) /\ Len(ip) + Len(fp) <= MaxSig
       THEN LET mag == DigitsValue(ip) * Pow10(Len(fp)) + DigitsValue(fp)
            IN <<NormDec(IF neg THEN 0 - mag ELSE mag, Len(fp))>>
       ELSE <<>>

\* Display of an integer
RECURSIVE NatToStr(_)
NatToStr(n) ==
    IF n < 10 THEN <<Digits[n + 1]>>
    ELSE NatToStr(n \div 10) \o <<Digits[(n % 10) + 1]>>

IntToStr(n) == IF n < 0 THEN <<"-">> \o NatToStr(0 - n) ELSE NatToStr(n)

\* n written with exactly w digits, zero-padded on the left
RECURSIVE PadDigits(_, _)
PadDigits(n, w) ==
    IF w = 0 THEN <<>> ELSE PadDigits(n \div 10, w - 1) \o <<Digits[(n % 10) + 1]>>

\* Display of an f32 held as m / 10^e
F32ToStr(f) ==
    LET mag == IF f.m < 0 THEN 0 - f.m ELSE f.m
        sgn == IF f.m < 0 THEN <<"-">> ELSE <<>>
    IN IF f.e = 0 THEN sgn \o NatToStr(mag)
       ELSE sgn \o NatToStr(mag \div Pow10(f.e)) \o <<".">> \o PadDigits(mag % Pow10(f.e), f.e)

\* Display of a bool
BoolToStr(b) == IF b THEN <<"t", "r", "u", "e">> ELSE <<"f", "a", "l", "s", "e">>

----------------------------------------------------------------------------
(* The environment: home directory and the directories derived from it *)

\* get_home_dir: the value of $HOME
HomeDir == <<"/", "h">>

\* Path::is_absolute on a Unix path
IsAbsolute(p) == Len(p) > 0 /\ p[1] = "/"

\* PathBuf::join: an absolute argument replaces the base
PathJoin(base, p) ==
    IF IsAbsolute(p) THEN p
    ELSE IF Len(base) > 0 /\ base[Len(base)] = "/" THEN base \o p
    ELSE base \o <<"/">> \o p

\* get_app_base_dir
AppBaseDir == PathJoin(HomeDir, <<"q", "u", "e", "r", "y", "_", "g", "g", "u", "f">>)

\* get_prompts_dir
PromptsDir == PathJoin(AppBaseDir, <<"p", "r", "o", "m", "p", "t", "s">>)

\* the sentinel path of the blank prompt
BlankPromptPath == PathJoin(PromptsDir, <<"b", "l", "a", "n", "k", "p", "r", "o", "m", "p", "t", ".", "t", "x", "t">>)

\* the file system besides the content of the configuration file: whether
\* that file exists, the kind of each directory by path, the backups of the
\* file (timestamp and content), the clock in seconds, and the directories
\* that hold a write-test file
FileSystem(config, dirs, backups, clock, tmp) ==
    [config |-> config, dirs |-> dirs, backups |-> backups, clock |-> clock, tmp |-> tmp]

\* a file system with the configuration file and nothing else of interest
NoFiles == FileSystem(TRUE, <<>>, {}, 0, {})

----------------------------------------------------------------------------
(* Field reader *)

\* Vec::sort_by_key on (number, value) pairs: a stable sort by the number
RECURSIVE InsertByKey(_, _)
InsertByKey(sorted, pair) ==
    IF Len(sorted) = 0 THEN <<pair>>
    ELSE IF sorted[Len(sorted)][1] <= pair[1] THEN Append(sorted, pair)
    ELSE Append(InsertByKey(SubSeq(sorted, 1, Len(sorted) - 1), pair), sorted[Len(sorted)])

RECURSIVE SortByKeyFrom(_, _)
SortByKeyFrom(pairs, acc) ==
    IF Len(pairs) = 0 THEN acc
    ELSE SortByKeyFrom(Tail(pairs), InsertByKey(acc, pairs[1]))

\* a reader that forgets the sort: the pairs stay in file order
SortByKeyUnsorted(pairs) == pairs

SortByKey(pairs) == SortByKeyFrom(pairs, <<>>)

\* the value cleaning of both lookups: trim, strip double quotes, trim
CleanValue(raw) == Trim(TrimMatches(Trim(raw), "\""))

\* one iteration of read_basename_fields_from_toml's loop: the (number, value)
\* pair the line contributes, as a list of zero or one pair
NumberedValueOfLine(line, prefix) ==
    LET trimmed_line == Trim(line)
    IN IF trimmed_line = <<>> \/ StartsWith(trimmed_line, <<"#">>) THEN <<>>
       ELSE IF ~StartsWith(trimmed_line, prefix) THEN <<>>
       ELSE LET num_str == StripPrefix(Trim(Split(trimmed_line, "=")[1]), prefix)
            IN IF num_str = <<>> THEN <<>>
               ELSE LET num == ParseUsize(num_str[1])
                        parts == SplitN2(trimmed_line, "=")
                    IN IF num = <<>> \/ Len(parts) # 2 THEN <<>>
                       ELSE LET value == CleanValue(parts[2])
                            IN IF value = <<>> THEN <<>> ELSE << <<num[1], value>> >>

RECURSIVE NumberedValues(_, _)
NumberedValues(lines, prefix) ==
    IF Len(lines) = 0 THEN <<>>
    ELSE NumberedValueOfLine(lines[1], prefix) \o NumberedValues(Tail(lines), prefix)

\* read_basename_fields_from_toml(base_name) on a file with this content
ReadBasenameFields(content, base_name) ==
    IF base_name = <<>> THEN <<>>
    ELSE LET numbered_values ==
                 SortByKey(NumberedValues(Lines(content), base_name \o <<"_">>))
         IN [i \in 1..Len(numbered_values) |-> numbered_values[i][2]]

----------------------------------------------------------------------------
(* Mode record model *)

\* a detection that subtracts the reserved core even from a single one
GetSystemCpuCountUnclamped(n) ==
    IF n = 0 THEN 3 ELSE n - 1

\* get_system_cpu_count: n is what available_parallelism reports, 0 for Err
GetSystemCpuCount(n) ==
    IF n = 0 THEN 3
    ELSE IF n > 1 THEN n - 1 ELSE 1

\* LlamaCppParameters::default
DefaultParameters(n) ==
    [temperature_value |-> [m |-> 8, e |-> 1],
     top_k_sampling    |-> 40,
     top_p_sampling    |-> [m |-> 9, e |-> 1],
     context_size      |-> 2000,
     thread_count      |-> GetSystemCpuCount(n),
     gpu_layers        |-> 0,
     interactive_first |-> TRUE]

\* validate_thread_count
ValidateThreadCount(threads, n) ==
    LET max_threads == GetSystemCpuCount(n) + 1
        min_threads == 1
    IN IF threads < min_threads THEN min_threads
       ELSE IF threads > max_threads THEN max_threads
       ELSE threads

\* a parser that stores the zero value when a value does not parse
\* (unwrap_or_default in place of if let Ok)
ApplyPartZeroOnError(params, part, n) ==
    LET kv == SplitN2(part, "=")
        zero == [m |-> 0, e |-> 0]
    IN IF Len(kv) # 2 THEN params
       ELSE LET key == kv[1]
                value == kv[2]
                f32 == IF ParseF32(value) # <<>> THEN ParseF32(value)[1] ELSE zero
                i32 == IF ParseI32(value) # <<>> THEN ParseI32(value)[1] ELSE 0
                bool == IF ParseBool(value) # <<>> THEN ParseBool(value)[1] ELSE FALSE
            IN IF key = <<"t", "e", "m", "p">> THEN [params EXCEPT !.temperature_value = f32]
               ELSE IF key = <<"t", "o", "p", "_", "k">> THEN [params EXCEPT !.top_k_sampling = i32]
               ELSE IF key = <<"t", "o", "p", "_", "p">> THEN [params EXCEPT !.top_p_sampling = f32]
               ELSE IF key = <<"c", "t", "x", "_", "s", "i", "z", "e">> THEN [params EXCEPT !.context_size = i32]
               ELSE IF key = <<"t", "h", "r", "e", "a", "d", "s">> THEN
                   [params EXCEPT !.thread_count = ValidateThreadCount(i32, n)]
               ELSE IF key = <<"g", "p", "u", "_", "l", "a", "y", "e", "r", "s">> THEN [params EXCEPT !.gpu_layers = i32]
               ELSE IF key = <<"i", "n", "t", "e", "r", "a", "c", "t", "i", "v", "e", "_", "f", "i", "r", "s", "t">> THEN
                   [params EXCEPT !.interactive_first = bool]
               ELSE params

\* one iteration of parse_parameters_from_parts's loop
ApplyPart(params, part, n) ==
    LET kv == SplitN2(part, "=")
    IN IF Len(kv) # 2 THEN params
       ELSE LET key == kv[1]
                value == kv[2]
            IN IF key = <<"t", "e", "m", "p">> THEN
                   (IF ParseF32(value) # <<>>
                    THEN [params EXCEPT !.temperature_value = ParseF32(value)[1]] ELSE params)
               ELSE IF key = <<"t", "o", "p", "_", "k">> THEN
                   (IF ParseI32(value) # <<>>
                    THEN [params EXCEPT !.top_k_sampling = ParseI32(value)[1]] ELSE params)
               ELSE IF key = <<"t", "o", "p", "_", "p">> THEN
                   (IF ParseF32(value) # <<>>
                    THEN [params EXCEPT !.top_p_sampling = ParseF32(value)[1]] ELSE params)
               ELSE IF key = <<"c", "t", "x", "_", "s", "i", "z", "e">> THEN
                   (IF ParseI32(value) # <<>>
                    THEN [params EXCEPT !.context_size = ParseI32(value)[1]] ELSE params)
               ELSE IF key = <<"t", "h", "r", "e", "a", "d", "s">> THEN
                   (IF ParseI32(value) # <<>>
                    THEN [params EXCEPT !.thread_count =
                                            ValidateThreadCount(ParseI32(value)[1], n)]
                    ELSE params)
               ELSE IF key = <<"g", "p", "u", "_", "l", "a", "y", "e", "r", "s">> THEN
                   (IF ParseI32(value) # <<>>
                    THEN [params EXCEPT !.gpu_layers = ParseI32(value)[1]] ELSE params)
               ELSE IF key = <<"i", "n", "t", "e", "r", "a", "c", "t", "i", "v", "e", "_", "f", "i", "r", "s", "t">> THEN
                   (IF ParseBool(value) # <<>>
                    THEN [params EXCEPT !.interactive_first = ParseBool(value)[1]] ELSE params)
               ELSE params

RECURSIVE ApplyParts(_, _, _)
ApplyParts(params, parts, n) ==
    IF Len(parts) = 0 THEN params
    ELSE ApplyParts(ApplyPart(params, parts[1], n), Tail(parts), n)

\* parse_parameters_from_parts
ParseParametersFromParts(parts, n) == ApplyParts(DefaultParameters(n), parts, n)

\* number of pipe-delimited parts of a mode value
SegmentCountOf(config_str) == Len(Split(config_str, "|"))

\* a part that is not a parameter assignment
IsNonParam(part) == ~Contains(part, "=")

\* a resolution that keeps segment 0 as it is written
ResolveModelPathVerbatim(part0) == part0

\* read_saved_modes: resolution of segment 0 to the model path
ResolveModelPath(part0) ==
    IF IsAbsolute(part0) THEN part0
    ELSE HomeDir \o <<"/">> \o TrimStartMatches(part0, <<"/">>)

\* a resolution that takes segment 1 as the prompt path whatever it holds
ResolvePromptPathAlways(parts) ==
    IF Len(parts) > 1
    THEN IF IsAbsolute(parts[2]) THEN parts[2]
         ELSE PathJoin(PromptsDir,
                       TrimStartMatches(TrimStartMatches(parts[2], <<"p", "r", "o", "m", "p", "t", "s", "/">>), <<"/">>))
    ELSE BlankPromptPath

\* read_saved_modes: resolution of the prompt path from the parts
ResolvePromptPath(parts) ==
    IF Len(parts) > 1 /\ ~Contains(parts[2], "=")
    THEN IF IsAbsolute(parts[2]) THEN parts[2]
         ELSE PathJoin(PromptsDir,
                       TrimStartMatches(TrimStartMatches(parts[2], <<"p", "r", "o", "m", "p", "t", "s", "/">>), <<"/">>))
    ELSE BlankPromptPath

\* read_saved_modes: name and description from the parts
NameAndDescription(parts) ==
    LET non_param_parts == SelectSeq(parts, IsNonParam)
        k == Len(non_param_parts)
    IN IF k >= 2
       THEN [name |-> non_param_parts[k - 1], description |-> non_param_parts[k]]
       ELSE [name |-> <<>>, description |-> <<>>]

\* one iteration of read_saved_modes's loop: the record decoded from one mode
\* value, as a list of zero records (the value is skipped) or one
DecodeMode(config_str, n) ==
    LET parts == Split(config_str, "|")
    IN IF Len(parts) < 2 THEN <<>>
       ELSE LET nd == NameAndDescription(parts)
            IN << [name        |-> nd.name,
                   description |-> nd.description,
                   model_path  |-> ResolveModelPath(parts[1]),
                   prompt_path |-> ResolvePromptPath(parts),
                   parameters  |-> ParseParametersFromParts(parts, n)] >>

\* a loop that ends at the first malformed value (break in place of continue)
RECURSIVE DecodeModesUntilMalformed(_, _)
DecodeModesUntilMalformed(mode_fields, n) ==
    IF Len(mode_fields) = 0 \/ SegmentCountOf(mode_fields[1]) < 2 THEN <<>>
    ELSE DecodeMode(mode_fields[1], n) \o DecodeModesUntilMalformed(Tail(mode_fields), n)

RECURSIVE DecodeModes(_, _)
DecodeModes(mode_fields, n) ==
    IF Len(mode_fields) = 0 THEN <<>>
    ELSE DecodeMode(mode_fields[1], n) \o DecodeModes(Tail(mode_fields), n)

\* read_saved_modes on a file with this content: Ok(modes)
ReadSavedModes(content, n) ==
    [ok |-> TRUE, modes |-> DecodeModes(ReadBasenameFields(content, <<"m", "o", "d", "e">>), n)]

----------------------------------------------------------------------------
(* Mode store: save_mode_to_config *)

\* a numbering by the records that decode instead of the lines
NewModeNumByRecords(content) == Len(ReadSavedModes(content, 1).modes) + 1

\* a numbering that forgets the + 1
NewModeNumWithoutIncrement(content) ==
    LET startsMode(line) == StartsWith(line, <<"m", "o", "d", "e", "_">>)
    IN Len(SelectSeq(Lines(content), startsMode))

\* the number save_mode_to_config gives the new entry
NewModeNum(content) ==
    LET startsMode(line) == StartsWith(line, <<"m", "o", "d", "e", "_">>)
    IN Len(SelectSeq(Lines(content), startsMode)) + 1

\* the content after the optional replacement of the default_mode line
WithDefaultMode(content, new_mode_num) ==
    LET notDefault(line) == ~StartsWith(line, <<"d", "e", "f", "a", "u", "l", "t", "_", "m", "o", "d", "e">>)
    IN PushStr(JoinLines(SelectSeq(Lines(content), notDefault)),
               <<"\n", "d", "e", "f", "a", "u", "l", "t", "_", "m", "o", "d", "e", " ", "=", " ">> \o IntToStr(new_mode_num) \o <<"\n">>)

\* an encoding that writes top_p before top_k
EncodeModeSwapped(mode) ==
    mode.model_path \o <<"|">> \o mode.prompt_path
        \o <<"|", "t", "e", "m", "p", "=">> \o F32ToStr(mode.parameters.temperature_value)
        \o <<"|", "t", "o", "p", "_", "p", "=">> \o F32ToStr(mode.parameters.top_p_sampling)
        \o <<"|", "t", "o", "p", "_", "k", "=">> \o IntToStr(mode.parameters.top_k_sampling)
        \o <<"|", "c", "t", "x", "_", "s", "i", "z", "e", "=">> \o IntToStr(mode.parameters.context_size)
        \o <<"|", "t", "h", "r", "e", "a", "d", "s", "=">> \o IntToStr(mode.parameters.thread_count)
        \o <<"|", "g", "p", "u", "_", "l", "a", "y", "e", "r", "s", "=">> \o IntToStr(mode.parameters.gpu_layers)
        \o <<"|", "i", "n", "t", "e", "r", "a", "c", "t", "i", "v", "e", "_", "f", "i", "r", "s", "t", "=">> \o BoolToStr(mode.parameters.interactive_first)
        \o <<"|">> \o mode.name \o <<"|">> \o mode.description

\* the encoded record: the text between the quotes of the new mode line
EncodeMode(mode) ==
    mode.model_path \o <<"|">> \o mode.prompt_path
        \o <<"|", "t", "e", "m", "p", "=">> \o F32ToStr(mode.parameters.temperature_value)
        \o <<"|", "t", "o", "p", "_", "k", "=">> \o IntToStr(mode.parameters.top_k_sampling)
        \o <<"|", "t", "o", "p", "_", "p", "=">> \o F32ToStr(mode.parameters.top_p_sampling)
        \o <<"|", "c", "t", "x", "_", "s", "i", "z", "e", "=">> \o IntToStr(mode.parameters.context_size)
        \o <<"|", "t", "h", "r", "e", "a", "d", "s", "=">> \o IntToStr(mode.parameters.thread_count)
        \o <<"|", "g", "p", "u", "_", "l", "a", "y", "e", "r", "s", "=">> \o IntToStr(mode.parameters.gpu_layers)
        \o <<"|", "i", "n", "t", "e", "r", "a", "c", "t", "i", "v", "e", "_", "f", "i", "r", "s", "t", "=">> \o BoolToStr(mode.parameters.interactive_first)
        \o <<"|">> \o mode.name \o <<"|">> \o mode.description

\* the text appended for the new mode: header comment and mode line
NewModeEntry(mode, new_mode_num) ==
    <<"\n", "#", " ", "M", "o", "d", "e", " ">> \o IntToStr(new_mode_num) \o <<" ", "-", " ">> \o mode.name
        \o <<" ", "-", " ">> \o mode.description \o <<"\n">>
        \o <<"m", "o", "d", "e", "_">> \o IntToStr(new_mode_num) \o <<" ", "=", " ", "\"">> \o EncodeMode(mode) \o <<"\"", "\n">>

\* save_mode_to_config on a file with this content; answer is what
\* prompt_yes_no returns: "yes", "no" or "err" (reading the answer failed)
SaveModeToConfig(content, mode, answer) ==
    LET new_mode_num == NewModeNum(content)
        config_content == IF answer = "yes"
                          THEN WithDefaultMode(content, new_mode_num)
                          ELSE content
    IN IF answer = "err" THEN [ok |-> FALSE, content |-> content]
       ELSE [ok |-> TRUE,
             content |-> PushStr(config_content, NewModeEntry(mode, new_mode_num))]

----------------------------------------------------------------------------
(* Inputs *)

\* a record with nothing in it, for operations that take no record
NoMode ==
    [name |-> <<>>, description |-> <<>>, model_path |-> <<>>, prompt_path |-> <<>>,
     parameters |-> DefaultParameters(1)]

\* an invocation of the tool: where it stands (pc), the file content
\* save_mode_to_config holds in memory and the record it saves, and how main
\* ended (status, and what it wrote to the error stream)
Invocation(pc, config_content, mode, status, stderr) ==
    [pc |-> pc, config_content |-> config_content, mode |-> mode,
     status |-> status, stderr |-> stderr]

\* one invocation, waiting at the prompt of the menu
AtMenu == << Invocation("menu", TextOf(<<>>), NoMode, "running", <<>>) >>

\* records offer_to_save_mode builds: absolute paths from the directory scans,
\* a trimmed non-empty name, parameters as typed in configure_parameters_interactive
SaveInputs(n) ==
    { [name |-> <<"n">>, description |-> <<"d">>, model_path |-> <<"/", "m">>,
       prompt_path |-> BlankPromptPath, parameters |-> DefaultParameters(n)],
      [name |-> <<"b">>, description |-> <<"e">>, model_path |-> <<"/", "m">>,
       prompt_path |-> <<"/", "p">>,
       parameters |-> [DefaultParameters(n) EXCEPT !.temperature_value = [m |-> 5, e |-> 1],
                                                   !.thread_count = 9]] }

\* answers of prompt_yes_no
Answers == {"yes", "no", "err"}

\* lines a user adds to the file by hand (the 'config' command opens an editor)
EditLines ==
    { <<"m", "o", "d", "e", "_", "2", " ", "=", " ", "\"", "x", "\"">>,
      <<"m", "o", "d", "e", "_", "1", " ", "=", " ", "\"", "m", "|", "p", "r", "o", "m", "p", "t", "s", "/", "p", "|", "t", "e", "m", "p", "=", "0", ".", "5", "|", "k", "|", "l", "\"">>,
      <<" ", "m", "o", "d", "e", "_", "5", " ", "=", " ", "\"", "/", "a", "|", "/", "b", "|", "n", "|", "d", "\"">> }

\* the file the setup wizard leaves (generate_toml_config, shortened to one
\* model directory, logging off, and the last of the commented examples)
InitialDoc ==
    TextOf(<<"#", " ", "Q", "u", "e", "r", "y", "G", "G", "U", "F", " ", "C", "o", "n", "f", "i", "g", "u", "r", "a", "t", "i", "o", "n", " ", "F", "i", "l", "e", "\n", "\n", "l", "l", "a", "m", "a", "_", "c", "l", "i", "_", "p", "a", "t", "h", " ", "=", " ", "\"", "/", "l", "\"", "\n", "\n", "l", "o", "g", "g", "i", "n", "g", "_", "e", "n", "a", "b", "l", "e", "d", " ", "=", " ", "f", "a", "l", "s", "e", "\n">>
           \o <<"g", "g", "u", "f", "_", "m", "o", "d", "e", "l", "_", "d", "i", "r", "e", "c", "t", "o", "r", "y", "_", "1", " ", "=", " ", "\"", "/", "g", "\"", "\n", "\n", "p", "r", "o", "m", "p", "t", "_", "d", "i", "r", "e", "c", "t", "o", "r", "y", " ", "=", " ", "\"", "p", "r", "o", "m", "p", "t", "s", "\"", "\n", "\n">>
           \o <<"#", " ", "m", "o", "d", "e", "_", "1", " ", "=", " ", "\"", "m", "o", "d", "e", "l", "_", "p", "a", "t", "h", "|", "p", "r", "o", "m", "p", "t", "_", "p", "a", "t", "h", "|", "t", "e", "m", "p", "=", "0", ".", "8", "|", "t", "o", "p", "_", "k", "=", "4", "0", "|", "d", "e", "s", "c", "r", "i", "p", "t", "i", "o", "n", "\"", "\n", "\n">>)

\* segments of hand-written mode values
Segments ==
    { <<"/", "m">>, <<"n">>, <<"p", "r", "o", "m", "p", "t", "s", "/", "p">>, <<"t", "e", "m", "p", "=", "0", ".", "5", "0">>, <<"t", "h", "r", "e", "a", "d", "s", "=", "9">>, <<>>, <<"\"", "q", "\"", " ">> }

\* parameter tokens whose value does not parse, one per key
BadTokens ==
    { <<"t", "e", "m", "p", "=", "h", "o", "t">>, <<"t", "o", "p", "_", "k", "=", "a", "b", "c">>, <<"t", "o", "p", "_", "p", "=">>, <<"c", "t", "x", "_", "s", "i", "z", "e", "=", "2", "k">>, <<"t", "h", "r", "e", "a", "d", "s", "=", "1", ".", "5">>,
      <<"g", "p", "u", "_", "l", "a", "y", "e", "r", "s", "=", "a", "l", "l">>, <<"i", "n", "t", "e", "r", "a", "c", "t", "i", "v", "e", "_", "f", "i", "r", "s", "t", "=", "y", "e", "s">> }

\* parameter tokens whose value parses
GoodTokens == { <<"t", "e", "m", "p", "=", "0", ".", "5">>, <<"t", "o", "p", "_", "k", "=", "7">>, <<"t", "h", "r", "e", "a", "d", "s", "=", "2">>, <<"i", "n", "t", "e", "r", "a", "c", "t", "i", "v", "e", "_", "f", "i", "r", "s", "t", "=", "f", "a", "l", "s", "e">> }

RECURSIVE SeqsUpTo(_, _)
SeqsUpTo(S, k) ==
    IF k = 0 THEN {<<>>}
    ELSE LET shorter == SeqsUpTo(S, k - 1)
         IN shorter \cup {Append(s, x) : s \in {t \in shorter : Len(t) = k - 1}, x \in S}

\* hand-written mode values: up to MaxSegs segments joined by '|', and values
\* with one or two parameter tokens between the paths and the name
ModeTexts ==
    {Join(segs, <<"|">>) : segs \in SeqsUpTo(Segments, MaxSegs) \ {<<>>}}
    \cup {<<"/", "m", "|", "/", "p", "|">> \o t \o <<"|", "n", "|", "d">> : t \in BadTokens \cup GoodTokens}
    \cup {<<"/", "m", "|", "/", "p", "|">> \o t \o <<"|">> \o u \o <<"|", "n", "|", "d">> : t \in GoodTokens, u \in BadTokens}

\* how the value is written on its line: bare or in double quotes
RawValues == ModeTexts \cup {<<"\"">> \o t \o <<"\"">> : t \in ModeTexts}

----------------------------------------------------------------------------
(* The store: saves, hand edits and reads of the configuration file *)

OpRecord(kind, mode, answer, line, ok, modes) ==
    [kind |-> kind, mode |-> mode, answer |-> answer, line |-> line,
     ok |-> ok, modes |-> modes]

Init ==
    /\ cpus \in {1, MaxCpus}
    /\ doc = InitialDoc
    /\ prev = InitialDoc
    /\ op = OpRecord("init", NoMode, "no", <<>>, TRUE, <<>>)
    /\ nops = [saves |-> 0, edits |-> 0]
    /\ procs = AtMenu
    /\ files = NoFiles

\* offer_to_save_mode calls save_mode_to_config(mode)
SaveMode(mode, answer) ==
    LET r == SaveModeToConfig(doc, mode, answer)
    IN /\ nops.saves + nops.edits < MaxOps
       /\ doc' = r.content
       /\ prev' = doc
       /\ op' = OpRecord("save", mode, answer, <<>>, r.ok, <<>>)
       /\ nops' = IF r.ok THEN [nops EXCEPT !.saves = @ + 1] ELSE nops
       /\ UNCHANGED <<files, cpus, procs>>

\* open_config_in_editor: the user adds a line at the end of the file
EditConfig(line) ==
    /\ nops.saves + nops.edits < MaxOps
    /\ doc' = PushStr(doc, line \o <<"\n">>)
    /\ prev' = doc
    /\ op' = OpRecord("edit", NoMode, "no", line, TRUE, <<>>)
    /\ nops' = [nops EXCEPT !.edits = @ + 1]
    /\ UNCHANGED <<files, cpus, procs>>

\* a caller (menu display, mode selection) calls read_saved_modes
ReadModes ==
    LET r == ReadSavedModes(doc, cpus)
    IN /\ op.kind # "read"
       /\ op' = OpRecord("read", NoMode, "no", <<>>, r.ok, r.modes)
       /\ prev' = doc
       /\ UNCHANGED <<files, cpus, doc, nops, procs>>

Next ==
    \/ \E mode \in SaveInputs(cpus), answer \in Answers : SaveMode(mode, answer)
    \/ \E line \in EditLines : EditConfig(line)
    \/ ReadModes

Spec == Init /\ [][Next]_vars

----------------------------------------------------------------------------
(* The codec alone: a hand-written mode line is decoded, the decoded record *)
(* is saved again, and the file is decoded once more                        *)

InitDecode ==
    /\ cpus \in {0, MaxCpus}
    /\ \E raw \in RawValues : doc = TextOf(<<"m", "o", "d", "e", "_", "1", " ", "=", " ">> \o raw \o <<"\n">>)
    /\ prev = doc
    /\ op = OpRecord("init", NoMode, "no", <<>>, TRUE, <<>>)
    /\ nops = [saves |-> 0, edits |-> 0]
    /\ procs = AtMenu
    /\ files = NoFiles

\* the record just decoded is saved as a new mode, not as the default
Resave ==
    /\ op.kind = "read"
    /\ nops.saves = 0
    /\ Len(op.modes) > 0
    /\ SaveMode(op.modes[1], "no")

NextDecode == ReadModes \/ Resave

SpecDecode == InitDecode /\ [][NextDecode]_vars

----------------------------------------------------------------------------
(* Properties.  They are stated on the observable history: prev is the file *)
(* before the last operation, doc the file after it, op the operation.      *)

\* the mode values the field reader hands to read_saved_modes
ModeStrings(content) == ReadBasenameFields(content, <<"m", "o", "d", "e">>)

\* the segments of a mode value that contain no '='
NonParamSegments(text) == SelectSeq(Split(text, "|"), IsNonParam)

\* the state after the first decode of the hand-written line
FirstDecode == op.kind = "read" /\ nops.saves = 0

\* the state after the record was saved again and the file decoded once more
SecondDecode == op.kind = "read" /\ nops.saves = 1

\* C1: round-trip stability.  For every mode string with at least 2 segments
\* and at least 2 segments without '=', decoding it, saving the decoded
\* record and decoding the saved entry yields a record equal to the first
\* decode in every field.
C1_RoundTripStable ==
    SecondDecode =>
        LET text == ModeStrings(prev)[1]
        IN (SegmentCountOf(text) >= 2 /\ Len(NonParamSegments(text)) >= 2) =>
               /\ Len(op.modes) = 2
               /\ op.modes[2] = op.modes[1]

\* The round trip does hold when the first decode yields a description that
\* ends neither in white space nor in a double quote: the loss is in the value
\* cleaning, which trims the end of the quoted entry save_mode_to_config writes.
C1_RoundTripUnlessDescriptionCleaned ==
    SecondDecode =>
        LET text == ModeStrings(prev)[1]
            d == op.modes[1].description
        IN (SegmentCountOf(text) >= 2 /\ (d = <<>> \/ d[Len(d)] \notin {" ", "\t", "\""})) =>
               /\ Len(op.modes) = 2
               /\ op.modes[2] = op.modes[1]

\* C2: append then re-read.  After a successful save_mode_to_config of a
\* record (absolute paths, non-empty name, no '|' in a field),
\* read_saved_modes returns exactly one record more than before the save,
\* and the additional record equals the saved record in every field.
C2_AppendThenReread ==
    (op.kind = "save" /\ op.ok) =>
        LET before == ReadSavedModes(prev, cpus).modes
            after  == ReadSavedModes(doc, cpus).modes
        IN /\ Len(after) = Len(before) + 1
           /\ \E i \in 1..Len(after) :
                  /\ after[i] = op.mode
                  /\ SubSeq(after, 1, i - 1) \o SubSeq(after, i + 1, Len(after)) = before

\* thread counts validate_thread_count leaves as they are
ThreadCountInRange(mode) ==
    /\ mode.parameters.thread_count >= 1
    /\ mode.parameters.thread_count <= GetSystemCpuCount(cpus) + 1

\* The same holds of the code once the saved thread count is in the range
\* validate_thread_count accepts (and no field holds '=', '|' or a quote).
C2_AppendThenRereadInRange ==
    (op.kind = "save" /\ op.ok /\ ThreadCountInRange(op.mode)) =>
        LET before == ReadSavedModes(prev, cpus).modes
            after  == ReadSavedModes(doc, cpus).modes
        IN /\ Len(after) = Len(before) + 1
           /\ \E i \in 1..Len(after) :
                  /\ after[i] = op.mode
                  /\ SubSeq(after, 1, i - 1) \o SubSeq(after, i + 1, Len(after)) = before

\* the (number, value) pairs of the mode_<N> lines, in file order
ModePairs(content) == NumberedValues(Lines(content), <<"m", "o", "d", "e", "_">>)

\* place of the k-th pair among the pairs ordered by number, equal numbers in
\* file order
RankOfPair(pairs, k) ==
    Cardinality({j \in 1..Len(pairs) :
                     \/ pairs[j][1] < pairs[k][1]
                     \/ (pairs[j][1] = pairs[k][1] /\ j <= k)})

\* C3: read_basename_fields_from_toml("mode") returns the values of the
\* mode_<N> lines ordered by ascending integer suffix N, whatever the order
\* of the lines in the file (lines with the same N keep their file order),
\* and read_saved_modes lists the records in that order.
C3_OrderedBySuffix ==
    LET pairs  == ModePairs(doc)
        values == ModeStrings(doc)
    IN /\ Len(values) = Len(pairs)
       /\ \A k \in 1..Len(pairs) : values[RankOfPair(pairs, k)] = pairs[k][2]
       /\ \A j, k \in 1..Len(pairs) :
              pairs[j][1] < pairs[k][1] => RankOfPair(pairs, j) < RankOfPair(pairs, k)
       /\ op.kind = "read" => op.modes = DecodeModes(values, cpus)

\* a read of a file whose mode lines are not in the order of their suffixes
C3_Witness ==
    /\ op.kind = "read"
    /\ Len(op.modes) >= 2
    /\ \E j, k \in 1..Len(ModePairs(doc)) :
           j < k /\ ModePairs(doc)[j][1] > ModePairs(doc)[k][1]

\* C4: decoding sets name to the second-to-last and description to the last
\* of the segments without '=', model_path comes from segment 0 and
\* prompt_path from segment 1, and the segments used for name and
\* description are other segments than segment 0 and segment 1.
C4_NameDescriptionDistinctSegments ==
    FirstDecode /\ Len(op.modes) = 1 =>
        LET text  == ModeStrings(doc)[1]
            parts == Split(text, "|")
            free  == {i \in 1..Len(parts) : IsNonParam(parts[i])}
            rec   == op.modes[1]
        IN Cardinality(free) >= 2 =>
               \E i, j \in free :
                   /\ i < j
                   /\ \A k \in free : k <= i \/ k = j
                   /\ rec.name = parts[i]
                   /\ rec.description = parts[j]
                   /\ i > 2

\* C5: a mode string whose segments after model path and prompt path hold
\* fewer than two segments without '=' decodes to a record with empty name
\* and empty description.
C5_EmptyNameWithoutNameSegments ==
    FirstDecode /\ Len(op.modes) = 1 =>
        LET text  == ModeStrings(doc)[1]
            parts == Split(text, "|")
            rec   == op.modes[1]
        IN Cardinality({i \in 3..Len(parts) : IsNonParam(parts[i])}) < 2 =>
               rec.name = <<>> /\ rec.description = <<>>

\* What the code does instead: name and description are empty exactly when
\* the whole mode string, segments 0 and 1 included, holds fewer than two
\* segments without '='.
C5_EmptyNameByAllSegments ==
    FirstDecode /\ Len(op.modes) = 1 =>
        LET text == ModeStrings(doc)[1]
            rec  == op.modes[1]
        IN Len(NonParamSegments(text)) < 2 => rec.name = <<>> /\ rec.description = <<>>

\* the lines of a text that start with "mode_", counted as save_mode_to_config
\* counts them
ModeLineCount(content) ==
    Cardinality({i \in 1..Len(Lines(content)) : StartsWith(Lines(content)[i], <<"m", "o", "d", "e", "_">>)})

\* the last line of a text
LastLine(content) == Lines(content)[Len(Lines(content))]

\* C6: save_mode_to_config gives the new entry the key mode_<N> with
\* N = (number of lines that start with "mode_") + 1, malformed and
\* undecodable mode_ lines included.
C6_KeyCountsLines ==
    (op.kind = "save" /\ op.ok) =>
        StartsWith(LastLine(doc),
                   <<"m", "o", "d", "e", "_">> \o IntToStr(ModeLineCount(prev) + 1) \o <<" ", "=", " ">>)

\* a save after which N differs from the number of records read_saved_modes
\* returned before plus one: the file held a mode_ line that is not decoded
C6_Witness ==
    /\ op.kind = "save" /\ op.ok
    /\ ModeLineCount(prev) = 1
    /\ Len(ReadSavedModes(prev, cpus).modes) = 0
    /\ StartsWith(LastLine(doc), <<"m", "o", "d", "e", "_", "2", " ", "=", " ">>)

\* C7: from a file without mode_ lines, after k saves and no other edit the
\* mode keys of the file are mode_1 .. mode_k, once each and in file order.
C7_SequentialKeys ==
    nops.edits = 0 =>
        LET pairs == ModePairs(doc)
        IN /\ Len(pairs) = nops.saves
           /\ ModeLineCount(doc) = nops.saves
           /\ \A i \in 1..Len(pairs) : pairs[i][1] = i

\* several saves, one of them as the default, and no hand edit
C7_Witness ==
    /\ nops.edits = 0
    /\ nops.saves >= 2
    /\ op.kind = "save" /\ op.answer = "yes"
    /\ ModeLineCount(InitialDoc) = 0

FieldOfKey(params, key) ==
    IF key = <<"t", "e", "m", "p">> THEN <<params.temperature_value>>
    ELSE IF key = <<"t", "o", "p", "_", "k">> THEN <<params.top_k_sampling>>
    ELSE IF key = <<"t", "o", "p", "_", "p">> THEN <<params.top_p_sampling>>
    ELSE IF key = <<"c", "t", "x", "_", "s", "i", "z", "e">> THEN <<params.context_size>>
    ELSE IF key = <<"t", "h", "r", "e", "a", "d", "s">> THEN <<params.thread_count>>
    ELSE IF key = <<"g", "p", "u", "_", "l", "a", "y", "e", "r", "s">> THEN <<params.gpu_layers>>
    ELSE <<params.interactive_first>>

\* parts with the i-th replaced by an assignment to a key the code ignores
WithIgnoredPart(parts, i) == [parts EXCEPT ![i] = <<"z", "z", "=", "z", "z">>]

\* C9: a token key=value of one of the seven keys whose value does not parse
\* leaves that field at its default (no other token sets it) and changes no
\* other field; the record is still returned.
C9_BadValueKeepsDefault ==
    FirstDecode =>
        LET values == ModeStrings(doc)
        IN Len(values) = 1 =>
               LET parts == Split(values[1], "|")
               IN \A i \in 1..Len(parts) :
                      (parts[i] \in BadTokens /\ Len(parts) >= 2) =>
                          LET key == SplitN2(parts[i], "=")[1]
                          IN /\ Len(op.modes) = 1
                             /\ <<op.modes[1]>> =
                                    DecodeMode(Join(WithIgnoredPart(parts, i), <<"|">>), cpus)
                             /\ (\A j \in 1..Len(parts) :
                                     j # i => ~StartsWith(parts[j], key \o <<"=">>))
                                    => FieldOfKey(op.modes[1].parameters, key)
                                           = FieldOfKey(DefaultParameters(cpus), key)

\* a decode of a mode string that holds an unparseable threads value
C9_Witness ==
    /\ FirstDecode
    /\ Len(op.modes) = 1
    /\ ModeStrings(doc) = << <<"/", "m", "|", "/", "p", "|", "t", "h", "r", "e", "a", "d", "s", "=", "1", ".", "5", "|", "n", "|", "d">> >>
    /\ op.modes[1].name = <<"n">>

\* the sentinel blank-prompt path, <prompts dir>/blankprompt.txt
SentinelPromptPath == <<"/", "h", "/", "q", "u", "e", "r", "y", "_", "g", "g", "u", "f", "/", "p", "r", "o", "m", "p", "t", "s", "/", "b", "l", "a", "n", "k", "p", "r", "o", "m", "p", "t", ".", "t", "x", "t">>

C11_PathsAbsolute ==
    op.kind = "read" =>
        /\ \A i \in 1..Len(op.modes) :
               /\ Len(op.modes[i].model_path) > 0 /\ op.modes[i].model_path[1] = "/"
               /\ Len(op.modes[i].prompt_path) > 0 /\ op.modes[i].prompt_path[1] = "/"
        /\ (FirstDecode /\ Len(op.modes) = 1) =>
               LET parts == Split(ModeStrings(doc)[1], "|")
               IN /\ ~StartsWith(parts[1], <<"/">>) =>
                         op.modes[1].model_path = <<"/", "h", "/">> \o parts[1]
                  /\ (~StartsWith(parts[2], <<"/">>) /\ ~Contains(parts[2], "=")) =>
                         StartsWith(op.modes[1].prompt_path, <<"/", "h", "/", "q", "u", "e", "r", "y", "_", "g", "g", "u", "f", "/", "p", "r", "o", "m", "p", "t", "s", "/">>)

\* a decode of a mode string whose model and prompt segments are both relative
C11_Witness ==
    /\ FirstDecode
    /\ Len(op.modes) = 1
    /\ Split(ModeStrings(doc)[1], "|")[1] = <<"n">>
    /\ Split(ModeStrings(doc)[1], "|")[2] = <<"p", "r", "o", "m", "p", "t", "s", "/", "p">>

\* the text between the quotes of a mode line
QuotedBody(line) == SubSeq(line, FirstIndex(line, "\"") + 1, Len(line) - 1)

\* the text after the first '=' of a segment
AfterEquals(segment) == SubSeq(segment, FirstIndex(segment, "=") + 1, Len(segment))

\* C12: the entry save_mode_to_config writes is
\* model_path|prompt_path|temp=..|top_k=..|top_p=..|ctx_size=..|threads=..|
\* gpu_layers=..|interactive_first=..|name|description: eleven segments, the
\* seven parameters all present in this order with the record's values,
\* whatever tokens the record was decoded from.
C12_CanonicalEntry ==
    (op.kind = "save" /\ op.ok) =>
        LET line == LastLine(doc)
            segs == Split(QuotedBody(line), "|")
            p    == op.mode.parameters
        IN /\ line[Len(line)] = "\""
           /\ Len(segs) = 11
           /\ segs[1] = op.mode.model_path
           /\ segs[2] = op.mode.prompt_path
           /\ StartsWith(segs[3], <<"t", "e", "m", "p", "=">>)
           /\ ParseF32(AfterEquals(segs[3])) = <<p.temperature_value>>
           /\ StartsWith(segs[4], <<"t", "o", "p", "_", "k", "=">>)
           /\ ParseI32(AfterEquals(segs[4])) = <<p.top_k_sampling>>
           /\ StartsWith(segs[5], <<"t", "o", "p", "_", "p", "=">>)
           /\ ParseF32(AfterEquals(segs[5])) = <<p.top_p_sampling>>
           /\ StartsWith(segs[6], <<"c", "t", "x", "_", "s", "i", "z", "e", "=">>)
           /\ ParseI32(AfterEquals(segs[6])) = <<p.context_size>>
           /\ StartsWith(segs[7], <<"t", "h", "r", "e", "a", "d", "s", "=">>)
           /\ ParseI32(AfterEquals(segs[7])) = <<p.thread_count>>
           /\ StartsWith(segs[8], <<"g", "p", "u", "_", "l", "a", "y", "e", "r", "s", "=">>)
           /\ ParseI32(AfterEquals(segs[8])) = <<p.gpu_layers>>
           /\ StartsWith(segs[9], <<"i", "n", "t", "e", "r", "a", "c", "t", "i", "v", "e", "_", "f", "i", "r", "s", "t", "=">>)
           /\ ParseBool(AfterEquals(segs[9])) = <<p.interactive_first>>
           /\ segs[10] = op.mode.name
           /\ segs[11] = op.mode.description

\* a record decoded from an entry with two parameter tokens in another order
\* than the canonical one is saved again
C12_Witness ==
    /\ op.kind = "save" /\ op.ok
    /\ ModeStrings(prev) = << <<"/", "m", "|", "/", "p", "|", "t", "h", "r", "e", "a", "d", "s", "=", "2", "|", "t", "e", "m", "p", "=", "h", "o", "t", "|", "n", "|", "d">> >>
    /\ op.mode.parameters.thread_count = 2

----------------------------------------------------------------------------
(* The scalar lookup of the field reader, and the field reader and the     *)
(* store on hand-edited files                                              *)

\* a lookup that takes the first line whose key starts with the field name
ValueOfFieldLineByPrefix(line, field_name) ==
    IF Trim(line) = <<>> \/ StartsWith(TrimStart(line), <<"#">>) THEN <<>>
    ELSE IF ~StartsWith(TrimStart(line), field_name) THEN <<>>
    ELSE LET parts == SplitN2(line, "=")
         IN IF Len(parts) # 2 THEN <<>>
            ELSE IF Trim(parts[2]) = <<>> THEN << <<>> >>
            ELSE << CleanValue(Trim(parts[2])) >>

\* a lookup that gives up at a line of the field without '=' (return in place
\* of continue)
ValueOfFieldLineStopAtMalformed(line, field_name) ==
    IF Trim(line) = <<>> \/ StartsWith(TrimStart(line), <<"#">>) THEN <<>>
    ELSE IF ~StartsWith(TrimStart(line), field_name) THEN <<>>
    ELSE LET parts == SplitN2(line, "=")
         IN IF Len(parts) # 2 THEN << <<>> >>
            ELSE LET key   == Trim(parts[1])
                     value == Trim(parts[2])
                 IN IF key # field_name THEN <<>>
                    ELSE IF value = <<>> THEN << <<>> >>
                    ELSE << CleanValue(value) >>

\* one iteration of read_field_from_toml's loop: <<>> when the loop goes on
\* to the next line, <<v>> when the function returns v
ValueOfFieldLine(line, field_name) ==
    IF Trim(line) = <<>> \/ StartsWith(TrimStart(line), <<"#">>) THEN <<>>
    ELSE IF ~StartsWith(TrimStart(line), field_name) THEN <<>>
    ELSE LET parts == SplitN2(line, "=")
         IN IF Len(parts) # 2 THEN <<>>
            ELSE LET key   == Trim(parts[1])
                     value == Trim(parts[2])
                 IN IF key # field_name THEN <<>>
                    ELSE IF value = <<>> THEN << <<>> >>
                    ELSE << CleanValue(value) >>

\* read_field_from_toml's loop over the lines; the empty string when it ends
RECURSIVE ScanField(_, _)
ScanField(lines, field_name) ==
    IF Len(lines) = 0 THEN <<>>
    ELSE LET r == ValueOfFieldLine(lines[1], field_name)
         IN IF r # <<>> THEN r[1] ELSE ScanField(Tail(lines), field_name)

\* read_field_from_toml(field_name) on a file with this content; opens tells
\* whether File::open succeeds (the file exists and is readable)
ReadFieldFromToml(content, field_name, opens) ==
    IF field_name = <<>> \/ ~opens THEN <<>>
    ELSE ScanField(Lines(content), field_name)

\* read_basename_fields_from_toml(base_name) with the outcome of File::open
ReadBasenameFieldsFromToml(content, base_name, opens) ==
    IF base_name = <<>> \/ ~opens THEN <<>>
    ELSE ReadBasenameFields(content, base_name)

\* lines of a hand-edited file
MaxLines == 2

FieldLines ==
    { <<"d", "e", "f", "a", "u", "l", "t", "_", "m", "o", "d", "e", " ", "=", " ", "1">>,
      <<" ", "d", "e", "f", "a", "u", "l", "t", "_", "m", "o", "d", "e", " ", "=", " ", "7">>,
      <<"d", "e", "f", "a", "u", "l", "t", "_", "m", "o", "d", "e", "_", "o", "l", "d", " ", "=", " ", "3">>,
      <<"d", "e", "f", "a", "u", "l", "t", "_", "m", "o", "d", "e", " ", "=", " ", "a", "b", "c">>,
      <<"d", "e", "f", "a", "u", "l", "t", "_", "m", "o", "d", "e">>,
      <<"#", " ", "d", "e", "f", "a", "u", "l", "t", "_", "m", "o", "d", "e", " ", "=", " ", "2">>,
      <<"d", "e", "f", "a", "u", "l", "t", "_", "m", "o", "d", "e", " ", "=">>,
      <<"m", "o", "d", "e", "_", "1", " ", "=", " ", "\"", "/", "m", "|", "/", "p", "|", "n", "|", "d", "\"">>,
      <<"m", "o", "d", "e", "_", "2">> }

\* a text of lines, each ended by a line feed
TextOfLines(ls) == [lines |-> ls, open |-> <<>>]

FieldNames == { <<"d", "e", "f", "a", "u", "l", "t", "_", "m", "o", "d", "e">>, <<"l", "l", "a", "m", "a", "_", "c", "l", "i", "_", "p", "a", "t", "h">>, <<>> }

BaseNames == { <<"m", "o", "d", "e">>, <<>> }

\* a lookup and what it returned
LookupRecord(kind, name, opens, result) ==
    [kind |-> kind, name |-> name, opens |-> opens, result |-> result]

InitField ==
    /\ cpus = MaxCpus
    /\ \E ls \in SeqsUpTo(FieldLines, MaxLines) : doc = TextOfLines(ls)
    /\ prev = doc
    /\ op = OpRecord("init", NoMode, "no", <<>>, TRUE, <<>>)
    /\ nops = [saves |-> 0, edits |-> 0]
    /\ procs = AtMenu
    /\ files = NoFiles

\* a caller (launch_llama, the menu) calls read_field_from_toml
ReadField(field_name, opens) ==
    /\ op' = LookupRecord("field", field_name, opens,
                          ReadFieldFromToml(doc, field_name, opens))
    /\ prev' = doc
    /\ UNCHANGED <<files, cpus, doc, nops, procs>>

\* a caller calls read_basename_fields_from_toml
ReadBasename(base_name, opens) ==
    /\ op' = LookupRecord("basename", base_name, opens,
                          ReadBasenameFieldsFromToml(doc, base_name, opens))
    /\ prev' = doc
    /\ UNCHANGED <<files, cpus, doc, nops, procs>>

\* one save into the hand-edited file
SaveOnce ==
    /\ nops.saves = 0
    /\ \E mode \in SaveInputs(cpus), answer \in Answers : SaveMode(mode, answer)

NextField ==
    \/ \E field_name \in FieldNames, opens \in BOOLEAN : ReadField(field_name, opens)
    \/ \E base_name \in BaseNames, opens \in BOOLEAN : ReadBasename(base_name, opens)
    \/ SaveOnce

SpecField == InitField /\ [][NextField]_vars

\* the key of a line: the text left of its first '=', trimmed (the whole line,
\* trimmed, when it holds no '=')
KeyOfLine(line) == Trim(SplitN2(line, "=")[1])

\* the places of the lines of a text that assign the key k
AssignmentsOf(content, k) ==
    {i \in 1..Len(Lines(content)) :
         Contains(Lines(content)[i], "=") /\ KeyOfLine(Lines(content)[i]) = k}

\* the value the i-th line assigns, cleaned of blanks and double quotes
AssignedValue(content, i) == CleanValue(SplitN2(Lines(content)[i], "=")[2])

\* smallest member of a non-empty set of numbers
MinOf(S) == CHOOSE i \in S : \A j \in S : i <= j

\* C13: read_field_from_toml(k) takes its result only from a line whose key,
\* trimmed, equals k: the result is the value of the first such line (the
\* empty string when there is none), whatever lines with a key that merely
\* starts with k stand before it.
C13_ExactKeyMatch ==
    (op.kind = "field" /\ op.opens /\ op.name # <<>>) =>
        LET exact == AssignmentsOf(doc, op.name)
        IN op.result = IF exact = {} THEN <<>> ELSE AssignedValue(doc, MinOf(exact))

\* default_mode is looked up in a file that holds default_mode_old before it
C13_Witness ==
    /\ op.kind = "field" /\ op.opens
    /\ op.name = <<"d", "e", "f", "a", "u", "l", "t", "_", "m", "o", "d", "e">>
    /\ Lines(doc) = << <<"d", "e", "f", "a", "u", "l", "t", "_", "m", "o", "d", "e", "_", "o", "l", "d", " ", "=", " ", "3">>, <<"d", "e", "f", "a", "u", "l", "t", "_", "m", "o", "d", "e", " ", "=", " ", "1">> >>
    /\ op.result = <<"1">>

\* a text without its lines that hold no '='
WithoutMalformed(content) ==
    LET hasEquals(line) == Contains(line, "=")
    IN TextOfLines(SelectSeq(Lines(content), hasEquals))

\* C14: the field reader always returns and leaves the file as it is; when the
\* file cannot be opened, the name is empty or no line assigns the field it
\* returns the empty string (the empty list), and a line without '=' is
\* passed over.
C14_ReaderDegrades ==
    /\ op.kind = "field" =>
           /\ doc = prev
           /\ (~op.opens \/ op.name = <<>> \/ AssignmentsOf(doc, op.name) = {}) =>
                  op.result = <<>>
           /\ op.result = ReadFieldFromToml(WithoutMalformed(doc), op.name, op.opens)
    /\ op.kind = "basename" =>
           /\ doc = prev
           /\ (~op.opens \/ op.name = <<>>) => op.result = <<>>
           /\ op.result = ReadBasenameFieldsFromToml(WithoutMalformed(doc), op.name, op.opens)

\* the mode values are read from a file that holds a mode line without '='
C14_Witness ==
    /\ op.kind = "basename" /\ op.opens
    /\ op.name = <<"m", "o", "d", "e">>
    /\ Lines(doc) = << <<"m", "o", "d", "e", "_", "2">>, <<"m", "o", "d", "e", "_", "1", " ", "=", " ", "\"", "/", "m", "|", "/", "p", "|", "n", "|", "d", "\"">> >>
    /\ op.result = << <<"/", "m", "|", "/", "p", "|", "n", "|", "d">> >>

\* a line that is not a default_mode line
NotDefaultModeLine(line) == KeyOfLine(line) # <<"d", "e", "f", "a", "u", "l", "t", "_", "m", "o", "d", "e">>

\* C15: save_mode_to_config only removes default_mode lines (when the mode is
\* made the default) and appends lines: the other lines of the file keep
\* their content and order, a default_mode line is among the appended lines,
\* and without the default the old text is a prefix of the new text.
C15_OnlyDefaultRemoved ==
    (op.kind = "save" /\ op.ok) =>
        /\ op.answer = "no" => StartsWith(CharsOf(doc), CharsOf(prev))
        /\ op.answer = "yes" =>
               /\ StartsWith(SelectSeq(Lines(doc), NotDefaultModeLine),
                             SelectSeq(Lines(prev), NotDefaultModeLine))
               /\ \E i \in AssignmentsOf(doc, <<"d", "e", "f", "a", "u", "l", "t", "_", "m", "o", "d", "e">>) :
                      \A j \in 1..Len(Lines(prev)) :
                          NotDefaultModeLine(Lines(prev)[j]) =>
                              \E h \in 1..(i - 1) : Lines(doc)[h] = Lines(prev)[j]

\* a line save_mode_to_config keeps when it replaces the default
NotDefaultModePrefix(line) == ~StartsWith(line, <<"d", "e", "f", "a", "u", "l", "t", "_", "m", "o", "d", "e">>)

\* What the code keeps: the lines that do not start with "default_mode".
C15_OnlyPrefixedRemoved ==
    (op.kind = "save" /\ op.ok) =>
        /\ op.answer = "no" => StartsWith(CharsOf(doc), CharsOf(prev))
        /\ op.answer = "yes" =>
               StartsWith(Lines(doc), SelectSeq(Lines(prev), NotDefaultModePrefix))

\* C16: after a save that makes the mode the default, the file holds exactly
\* one default_mode assignment, its value is the number N of the entry just
\* appended, and read_field_from_toml("default_mode") returns N.
C16_SingleDefault ==
    (op.kind = "save" /\ op.ok /\ op.answer = "yes") =>
        LET N       == IntToStr(ModeLineCount(prev) + 1)
            assigns == AssignmentsOf(doc, <<"d", "e", "f", "a", "u", "l", "t", "_", "m", "o", "d", "e">>)
        IN /\ StartsWith(LastLine(doc), <<"m", "o", "d", "e", "_">> \o N \o <<" ", "=", " ">>)
           /\ Cardinality(assigns) = 1
           /\ \A i \in assigns : AssignedValue(doc, i) = N
           /\ ReadFieldFromToml(doc, <<"d", "e", "f", "a", "u", "l", "t", "_", "m", "o", "d", "e">>, TRUE) = N

\* The same holds when no default_mode line of the file is indented.
C16_SingleDefaultUnindented ==
    (op.kind = "save" /\ op.ok /\ op.answer = "yes"
        /\ \A i \in AssignmentsOf(prev, <<"d", "e", "f", "a", "u", "l", "t", "_", "m", "o", "d", "e">>) :
               StartsWith(Lines(prev)[i], <<"d", "e", "f", "a", "u", "l", "t", "_", "m", "o", "d", "e">>)) =>
        LET N       == IntToStr(ModeLineCount(prev) + 1)
            assigns == AssignmentsOf(doc, <<"d", "e", "f", "a", "u", "l", "t", "_", "m", "o", "d", "e">>)
        IN /\ Cardinality(assigns) = 1
           /\ \A i \in assigns : AssignedValue(doc, i) = N
           /\ ReadFieldFromToml(doc, <<"d", "e", "f", "a", "u", "l", "t", "_", "m", "o", "d", "e">>, TRUE) = N

----------------------------------------------------------------------------
(* The interactive menu and main.  A Result is a record: outcome "ok" or   *)
(* "err" with the message, or "panic" when the call does not return;       *)
(* launched tells whether llama-cli was started and mode with which record, *)
(* content is the file after the call.                                     *)

Outcome(outcome, msg, launched, content) ==
    [outcome |-> outcome, msg |-> msg, launched |-> launched, content |-> content,
     mode |-> NoMode]

\* launch_llama: the CLI path is looked up in the file, then a terminal is
\* spawned (spawns: a terminal emulator could be started)
LaunchLlama(mode, content, spawns) ==
    IF ReadFieldFromToml(content, <<"l", "l", "a", "m", "a", "_", "c", "l", "i", "_", "p", "a", "t", "h">>, TRUE) = <<>>
    THEN Outcome("err", "LLaMA CLI path not found in configuration", FALSE, content)
    ELSE IF spawns THEN [Outcome("ok", "launched", TRUE, content) EXCEPT !.mode = mode]
    ELSE Outcome("err", "Failed to launch LLaMA", FALSE, content)

\* create_combined_prompt: the file the directory mode writes (the timestamp
\* of the name is left out)
CombinedPromptPath == PathJoin(PromptsDir, <<"c", "o", "m", "b", "i", "n", "e", "d", "_", "p", "r", "o", "m", "p", "t", ".", "t", "x", "t">>)

\* handle_mode_selection, the arm of a mode number.  checked: the build has
\* overflow checks (debug profile), so mode_num - 1 panics for 0; without
\* them it wraps to usize::MAX and names no mode
SelectSavedMode(content, number, n, spawns, checked) ==
    LET mode_num == ParseUsize(number)
    IN IF mode_num = <<>> THEN Outcome("err", "Invalid mode number", FALSE, content)
       ELSE IF mode_num[1] = 0
       THEN IF checked
            THEN Outcome("panic", "attempt to subtract with overflow", FALSE, content)
            ELSE Outcome("err", "Invalid mode selection", FALSE, content)
       ELSE IF mode_num[1] <= Len(ReadSavedModes(content, n).modes)
       THEN LaunchLlama(ReadSavedModes(content, n).modes[mode_num[1]], content, spawns)
       ELSE Outcome("err", "Invalid mode selection", FALSE, content)

\* handle_mode_selection, the arm "dir" | "directory": mode_num is the mode
\* number typed, combines tells whether create_combined_prompt succeeds
SelectDirectoryMode(content, mode_num, n, combines, spawns) ==
    LET num == ParseUsize(Trim(mode_num))
    IN IF num = <<>> \/ num[1] = 0
       THEN Outcome("err", "Invalid mode number", FALSE, content)
       ELSE IF num[1] > Len(ReadSavedModes(content, n).modes)
       THEN Outcome("err", "Invalid mode selection", FALSE, content)
       ELSE IF ~combines THEN Outcome("err", "Failed to create combined prompt", FALSE, content)
       ELSE LaunchLlama([ReadSavedModes(content, n).modes[num[1]]
                            EXCEPT !.prompt_path = CombinedPromptPath],
                        content, spawns)

\* handle_manual_mode_selection: setup is "fail" when a step before the offer
\* to save fails (no model found, invalid model number, prompt or parameter
\* input), "nosave" when the user declines to save, "save" when the record
\* is handed to save_mode_to_config
SelectManualMode(content, setup, mode, answer) ==
    IF setup = "fail" THEN Outcome("err", "Invalid model selection", FALSE, content)
    ELSE IF setup = "nosave" THEN Outcome("ok", "manual", FALSE, content)
    ELSE LET saved == SaveModeToConfig(content, mode, answer)
         IN IF saved.ok THEN Outcome("ok", "manual", FALSE, saved.content)
            ELSE Outcome("err", "Failed to read input", FALSE, content)

\* a menu that takes an unparsable default as mode 1 (unwrap_or(1))
DefaultIndexOrFirst(default_mode) ==
    IF default_mode = <<>> THEN <<>>
    ELSE IF ParseUsize(default_mode) = <<>> THEN <<1>>
    ELSE ParseUsize(default_mode)

\* the default index of display_mode_selection_screen: <<n>> when the
\* default_mode field is not empty and parses as usize, <<>> otherwise
DefaultIndex(default_mode) ==
    IF default_mode = <<>> THEN <<>> ELSE ParseUsize(default_mode)

\* a main that reports success whatever the result
MainStatusAlwaysSuccess(result) == "success"

\* main: the exit status for the result that ends the run
MainStatus(result) ==
    IF result.outcome = "ok" THEN "success"
    ELSE IF result.outcome = "panic" THEN "panic"
    ELSE IF result.msg = "User requested exit" THEN "success"
    ELSE "failure"

\* main returns (or the process aborts) with this result: the message of
\* an error or of a panic goes to the error stream
Exited(result) ==
    << Invocation("exit", TextOf(<<>>), NoMode, MainStatus(result),
                  IF result.outcome = "ok" \/ result.msg = "User requested exit"
                  THEN <<>> ELSE <<result.msg>>) >>

\* a step of main or of the menu loop, what was typed and how the call ended
MenuRecord(kind, choice, result, said) ==
    [kind |-> kind, choice |-> choice, result |-> result, said |-> said]

\* lines of the files the menu runs on, after the llama_cli_path line
MenuLines ==
    { <<"d", "e", "f", "a", "u", "l", "t", "_", "m", "o", "d", "e", " ", "=", " ", "1">>,
      <<"d", "e", "f", "a", "u", "l", "t", "_", "m", "o", "d", "e", " ", "=", " ", "a", "b", "c">>,
      <<"d", "e", "f", "a", "u", "l", "t", "_", "m", "o", "d", "e", " ", "=", " ", "-", "1">>,
      <<"d", "e", "f", "a", "u", "l", "t", "_", "m", "o", "d", "e", " ", "=", " ", "0">>,
      <<"m", "o", "d", "e", "_", "1", " ", "=", " ", "\"", "/", "m", "|", "/", "p", "|", "n", "|", "d", "\"">> }

\* lines of such a file after the llama_cli_path line
MaxMenuLines == 1

\* what the user adds in the editor
MenuEditLines == { <<"d", "e", "f", "a", "u", "l", "t", "_", "m", "o", "d", "e", " ", "=", " ", "1">> }

\* edits of the file per run of the menu
MaxMenuEdits == 1

\* what the user types at "Enter selection:" for a mode number or anything else
NumberChoices == { <<"1">>, <<"0">>, <<"7">> }

OtherChoices == { <<"z", "z">>, <<"-", "1">> }

InitMenu ==
    /\ cpus = MaxCpus
    /\ \E ls \in SeqsUpTo(MenuLines, MaxMenuLines) :
           doc = TextOfLines(<< <<"l", "l", "a", "m", "a", "_", "c", "l", "i", "_", "p", "a", "t", "h", " ", "=", " ", "\"", "/", "l", "\"">> >> \o ls)
    /\ prev = doc
    /\ op = OpRecord("init", NoMode, "no", <<>>, TRUE, <<>>)
    /\ nops = [saves |-> 0, edits |-> 0]
    /\ procs = << Invocation("start", TextOf(<<>>), NoMode, "running", <<>>) >>
    /\ files = NoFiles

\* main, up to the quick launch: the setup wizard runs when there is no file
\* (setup "done" or "failed"), "present" when the file exists
MainSetup(setup) ==
    LET result == IF setup = "failed"
                  THEN Outcome("err", "setup failed", FALSE, doc)
                  ELSE Outcome("ok", "setup", FALSE,
                               IF setup = "done" THEN InitialDoc ELSE doc)
    IN /\ procs[1].pc = "start"
       /\ doc' = result.content
       /\ prev' = doc
       /\ op' = MenuRecord("setup", <<>>, result, "")
       /\ procs' = IF result.outcome = "ok"
                   THEN << [procs[1] EXCEPT !.pc = "quick"] >>
                   ELSE Exited(result)
       /\ UNCHANGED <<files, cpus, nops>>

\* main: handle_quick_launch with the first command-line argument (none:
\* there is no argument)
QuickLaunch(none, arg, spawns, checked) ==
    LET result == IF none THEN Outcome("ok", "no argument", FALSE, doc)
                  ELSE SelectSavedMode(doc, Trim(arg), cpus, spawns, checked)
    IN /\ procs[1].pc = "quick"
       /\ prev' = doc
       /\ op' = MenuRecord("quick", IF none THEN <<>> ELSE arg, result, "")
       /\ procs' = IF result.outcome = "ok"
                   THEN << [procs[1] EXCEPT !.pc = "menu"] >>
                   ELSE Exited(result)
       /\ UNCHANGED <<files, cpus, doc, nops>>

\* display_mode_selection_screen: the arm of the match the typed choice takes
MenuArm(choice) ==
    IF choice = <<>> THEN "default"
    ELSE IF choice \in { <<"q", "u", "i", "t">>, <<"q">>, <<"e", "x", "i", "t">> } THEN "quit"
    ELSE IF choice = <<"c", "o", "n", "f", "i", "g">> THEN "config"
    ELSE IF choice \in { <<"m", "a", "k", "e">>, <<"m", "a", "n", "u", "a", "l">> } THEN "make"
    ELSE IF choice \in { <<"d", "i", "r">>, <<"d", "i", "r", "e", "c", "t", "o", "r", "y">> } THEN "dir"
    ELSE IF ParseUsize(choice) # <<>> THEN "number"
    ELSE "invalid"

\* the loop goes on to the next prompt
Continue(content) == Outcome("continue", "", FALSE, content)

\* read_user_input fails (standard input is closed)
InputFailed(content) == Outcome("err", "Failed to read input", FALSE, content)

\* One pass of the menu loop ends with result: the loop goes on, or
\* display_mode_selection_screen returns it to main
AfterPass(result) ==
    IF result.outcome = "continue" THEN procs ELSE Exited(result)

\* empty input: the default mode is launched when there is one
MenuDefault(typed, opens, spawns, checked) ==
    LET default_mode == DefaultIndex(ReadFieldFromToml(doc, <<"d", "e", "f", "a", "u", "l", "t", "_", "m", "o", "d", "e">>, opens))
        result == IF default_mode # <<>>
                  THEN SelectSavedMode(doc, IntToStr(default_mode[1]), cpus, spawns, checked)
                  ELSE Continue(doc)
    IN /\ procs[1].pc = "menu"
       /\ MenuArm(Trim(typed)) = "default"
       /\ prev' = doc
       /\ op' = MenuRecord("menu", typed, result,
                           IF default_mode = <<>>
                           THEN "No default mode set. Please make a selection." ELSE "")
       /\ procs' = AfterPass(result)
       /\ UNCHANGED <<files, cpus, doc, nops>>

\* quit, q or exit
MenuQuit(typed) ==
    LET result == Outcome("err", "User requested exit", FALSE, doc)
    IN /\ procs[1].pc = "menu"
       /\ MenuArm(Trim(typed)) = "quit"
       /\ prev' = doc
       /\ op' = MenuRecord("menu", typed, result, "Goodbye!")
       /\ procs' = AfterPass(result)
       /\ UNCHANGED <<files, cpus, doc, nops>>

\* config: open_config_in_editor; the editor runs and the user adds a line
\* (or none), or the editor cannot be run or exits with an error status
MenuConfig(typed, edits, line) ==
    LET result == IF edits THEN Continue(PushStr(doc, line))
                  ELSE Outcome("err", "Failed to launch editor", FALSE, doc)
    IN /\ procs[1].pc = "menu"
       /\ MenuArm(Trim(typed)) = "config"
       /\ nops.edits < MaxMenuEdits
       /\ doc' = result.content
       /\ prev' = doc
       /\ op' = MenuRecord("menu", typed, result, "")
       /\ nops' = IF edits THEN [nops EXCEPT !.edits = @ + 1] ELSE nops
       /\ procs' = AfterPass(result)
       /\ UNCHANGED <<files, cpus>>

\* make or manual: handle_manual_mode_selection, with the save it offers
MenuMake(typed, setup, mode, answer) ==
    LET result == SelectManualMode(doc, setup, mode, answer)
    IN /\ procs[1].pc = "menu"
       /\ MenuArm(Trim(typed)) = "make"
       /\ doc' = result.content
       /\ prev' = doc
       /\ op' = MenuRecord("menu", typed, result, "")
       /\ nops' = IF setup = "save" /\ result.outcome = "ok"
                  THEN [nops EXCEPT !.saves = @ + 1] ELSE nops
       /\ procs' = AfterPass(result)
       /\ UNCHANGED <<files, cpus>>

\* dir or directory: the directory mode with the mode number typed for it
MenuDir(typed, mode_num, combines, spawns) ==
    LET result == SelectDirectoryMode(doc, mode_num, cpus, combines, spawns)
    IN /\ procs[1].pc = "menu"
       /\ MenuArm(Trim(typed)) = "dir"
       /\ prev' = doc
       /\ op' = MenuRecord("menu", typed, result, "")
       /\ procs' = AfterPass(result)
       /\ UNCHANGED <<files, cpus, doc, nops>>

\* a mode number: the mode is launched, or the error is shown and, after
\* Enter (enter: that read succeeds), the menu is shown again
MenuNumber(typed, spawns, checked, enter) ==
    LET mode_num == ParseUsize(Trim(typed))[1]
        selected == SelectSavedMode(doc, IntToStr(mode_num), cpus, spawns, checked)
        result == IF selected.outcome # "err" THEN selected
                  ELSE IF enter THEN [selected EXCEPT !.outcome = "continue"]
                  ELSE InputFailed(doc)
    IN /\ procs[1].pc = "menu"
       /\ MenuArm(Trim(typed)) = "number"
       /\ prev' = doc
       /\ op' = MenuRecord("menu", typed, result,
                           IF selected.outcome = "err" THEN "Error" ELSE "")
       /\ procs' = AfterPass(result)
       /\ UNCHANGED <<files, cpus, doc, nops>>

\* anything else: "Invalid selection", and the menu is shown again after Enter
MenuInvalid(typed, enter) ==
    LET result == IF enter THEN Continue(doc) ELSE InputFailed(doc)
    IN /\ procs[1].pc = "menu"
       /\ MenuArm(Trim(typed)) = "invalid"
       /\ prev' = doc
       /\ op' = MenuRecord("menu", typed, result, "Invalid selection")
       /\ procs' = AfterPass(result)
       /\ UNCHANGED <<files, cpus, doc, nops>>

\* what the user types at "Enter selection:"
MenuChoices ==
    { <<>>, <<"q", "u", "i", "t">>, <<"q">>, <<"e", "x", "i", "t">>, <<"c", "o", "n", "f", "i", "g">>, <<"m", "a", "k", "e">>, <<"d", "i", "r">> }
        \cup NumberChoices \cup OtherChoices

NextMenu ==
    \/ \E setup \in {"present", "done", "failed"} : MainSetup(setup)
    \/ \E none \in BOOLEAN, arg \in NumberChoices \cup OtherChoices,
          spawns \in BOOLEAN, checked \in BOOLEAN :
           QuickLaunch(none, arg, spawns, checked)
    \/ \E typed \in MenuChoices, opens \in BOOLEAN, spawns \in BOOLEAN,
          checked \in BOOLEAN :
           MenuDefault(typed, opens, spawns, checked)
    \/ \E typed \in MenuChoices : MenuQuit(typed)
    \/ \E typed \in MenuChoices, edits \in BOOLEAN,
          line \in {<<>>} \cup {l \o <<"\n">> : l \in MenuEditLines} :
           MenuConfig(typed, edits, line)
    \/ \E typed \in MenuChoices, setup \in {"fail", "nosave", "save"},
          mode \in SaveInputs(cpus), answer \in Answers :
           MenuMake(typed, setup, mode, answer)
    \/ \E typed \in MenuChoices, mode_num \in NumberChoices \cup OtherChoices,
          combines \in BOOLEAN, spawns \in BOOLEAN :
           MenuDir(typed, mode_num, combines, spawns)
    \/ \E typed \in MenuChoices, spawns \in BOOLEAN, checked \in BOOLEAN,
          enter \in BOOLEAN :
           MenuNumber(typed, spawns, checked, enter)
    \/ \E typed \in MenuChoices, enter \in BOOLEAN : MenuInvalid(typed, enter)

SpecMenu == InitMenu /\ [][NextMenu]_vars

\* a value that is a non-negative integer: digits, with an optional '+'
IsNonNegativeInteger(value) ==
    LET body == IF Len(value) > 0 /\ value[1] = "+" THEN Tail(value) ELSE value
    IN Len(body) > 0
       /\ \A i \in 1..Len(body) :
              body[i] \in {"0", "1", "2", "3", "4", "5", "6", "7", "8", "9"}

\* the file holds no default_mode assignment with a non-negative integer value
DefaultAbsent(content) ==
    \A i \in AssignmentsOf(content, <<"d", "e", "f", "a", "u", "l", "t", "_", "m", "o", "d", "e">>) :
        ~IsNonNegativeInteger(AssignedValue(content, i))

\* C17: when the file has no default_mode line, or none with a non-negative
\* integer value, empty input at the menu launches nothing, reports that no
\* default mode is set and the menu prompts again.
C17_NoDefaultPromptsAgain ==
    (op.kind = "menu" /\ Trim(op.choice) = <<>> /\ DefaultAbsent(prev)) =>
        /\ procs[1].pc = "menu"
        /\ procs[1].status = "running"
        /\ ~op.result.launched
        /\ op.said = "No default mode set. Please make a selection."
        /\ doc = prev

\* empty input on a file whose default_mode value is not a number
C17_Witness ==
    /\ op.kind = "menu"
    /\ Trim(op.choice) = <<>>
    /\ Lines(prev) = << <<"l", "l", "a", "m", "a", "_", "c", "l", "i", "_", "p", "a", "t", "h", " ", "=", " ", "\"", "/", "l", "\"">>, <<"d", "e", "f", "a", "u", "l", "t", "_", "m", "o", "d", "e", " ", "=", " ", "a", "b", "c">> >>
    /\ procs[1].pc = "menu"

\* an operation started from the menu failed for another reason than the
\* user's quit or a closed standard input
MenuOperationFailed ==
    /\ op.kind = "menu"
    /\ MenuArm(Trim(op.choice)) # "quit"
    /\ op.result.msg # "Failed to read input"
    /\ op.result.outcome \in {"err", "panic"} \/ op.said = "Error"

\* C19: no failure of an operation started from the menu ends the process:
\* the operation is aborted and the menu is shown again.
C19_FailureReturnsToMenu ==
    MenuOperationFailed => (procs[1].pc = "menu" /\ procs[1].status = "running")

\* What the code does: only the error of a selection by number that
\* handle_mode_selection returns leads back to the menu.
C19_NumberFailureReturnsToMenu ==
    (MenuOperationFailed /\ MenuArm(Trim(op.choice)) = "number"
        /\ op.result.outcome # "panic") =>
        (procs[1].pc = "menu" /\ procs[1].status = "running")

\* the run ended normally: the call that ended it returned Ok, or the user quit
EndedNormally ==
    \/ op.result.outcome = "ok"
    \/ op.kind = "menu" /\ MenuArm(Trim(op.choice)) = "quit"

\* C20: when main returns, the status is success if the run ended normally
\* and failure, with the message on the error stream, if an error ended it;
\* success is never returned after an error.
C20_ExitStatus ==
    (procs[1].pc = "exit" /\ procs[1].status # "panic") =>
        /\ EndedNormally => procs[1].status = "success"
        /\ ~EndedNormally =>
               /\ procs[1].status = "failure"
               /\ \E i \in 1..Len(procs[1].stderr) : procs[1].stderr[i] = op.result.msg

\* an error leaving the menu ended the run
C20_Witness ==
    /\ procs[1].pc = "exit"
    /\ procs[1].status = "failure"
    /\ op.kind = "menu"
    /\ op.result.outcome = "err"
    /\ procs[1].stderr # <<>>


\* the run has ended: main has returned or the process was aborted
RunEnded == procs[1].pc = "exit"

\* C24: when the program is invoked with one command-line argument and the
\* launch that argument selects succeeds, the run ends without showing the
\* mode selection menu
C24_QuickLaunchSkipsMenu ==
    (op.kind = "quick" /\ op.choice # <<>> /\ op.result.launched) => RunEnded

\* a quick launch that fails ends the run without showing the menu
C24_FailedQuickLaunchEnds ==
    (op.kind = "quick" /\ op.choice # <<>> /\ op.result.outcome # "ok") => RunEnded

\* messages of launch_llama's errors
LaunchErrors == {"LLaMA CLI path not found in configuration", "Failed to launch LLaMA"}

\* the result handle_mode_selection is to give for the number n: the n-th
\* record is launched (or the launch fails) when there is one, and the error
\* "Invalid mode selection" is returned when there is none
SelectsRecord(result, n, modes) ==
    IF 1 <= n /\ n <= Len(modes)
    THEN \/ result.outcome = "ok" /\ result.launched /\ result.mode = modes[n]
         \/ result.outcome = "err" /\ ~result.launched /\ result.msg \in LaunchErrors
    ELSE result.outcome = "err" /\ ~result.launched /\ result.msg = "Invalid mode selection"

\* C29: handle_mode_selection with the number n launches the n-th record of
\* read_saved_modes when 1 <= n <= number of records and returns the error
\* "Invalid mode selection" for every other n, 0 included, without launching
\* and without an arithmetic underflow or a crash
C29_NumericSelection ==
    (op.kind = "quick" /\ ParseUsize(Trim(op.choice)) # <<>>)
        => SelectsRecord(op.result, ParseUsize(Trim(op.choice))[1],
                         ReadSavedModes(doc, cpus).modes)

\* the same for the numbers from 1 on
C29_PositiveSelection ==
    (op.kind = "quick" /\ ParseUsize(Trim(op.choice)) # <<>>
                       /\ ParseUsize(Trim(op.choice)) # <<0>>)
        => SelectsRecord(op.result, ParseUsize(Trim(op.choice))[1],
                         ReadSavedModes(doc, cpus).modes)

\* the empty selection was typed and the file has a default mode number
DefaultSelected ==
    /\ op.kind = "menu"
    /\ MenuArm(Trim(op.choice)) = "default"
    /\ op.said = ""

\* C30: an empty selection with default_mode = N behaves like typing N: when
\* N names a record it is launched, and when N names no record the error is
\* reported and the menu prompts again
C30_DefaultLikeTyped ==
    DefaultSelected
        => LET n     == DefaultIndex(ReadFieldFromToml(doc, <<"d", "e", "f", "a", "u", "l", "t", "_", "m", "o", "d", "e">>, TRUE))[1]
               modes == ReadSavedModes(doc, cpus).modes
           IN IF 1 <= n /\ n <= Len(modes)
              THEN SelectsRecord(op.result, n, modes)
              ELSE /\ op.result.msg = "Invalid mode selection"
                   /\ procs[1].pc = "menu"

\* the same for a default_mode that names a record
C30_DefaultLaunchesRecord ==
    DefaultSelected
        => LET n     == DefaultIndex(ReadFieldFromToml(doc, <<"d", "e", "f", "a", "u", "l", "t", "_", "m", "o", "d", "e">>, TRUE))[1]
               modes == ReadSavedModes(doc, cpus).modes
           IN (1 <= n /\ n <= Len(modes)) => SelectsRecord(op.result, n, modes)

----------------------------------------------------------------------------
(* The default mode: a record is saved into a hand-edited file and made the *)
(* default, and the empty selection is entered in the menu                  *)

\* mode_ lines of the file before the save: well-formed, malformed (one
\* segment), commented, out of sequence
DefaultLines ==
    { <<"m", "o", "d", "e", "_", "1", " ", "=", " ", "\"", "/", "m", "|", "/", "p", "|", "n", "|", "d", "\"">>,
      <<"m", "o", "d", "e", "_", "2", " ", "=", " ", "\"", "x", "\"">>,
      <<"#", " ", "m", "o", "d", "e", "_", "1", " ", "=", " ", "\"", "/", "a", "|", "/", "b", "|", "c", "|", "d", "\"">>,
      <<"m", "o", "d", "e", "_", "5", " ", "=", " ", "\"", "/", "a", "|", "/", "b", "|", "n", "|", "d", "\"">> }

InitDefault ==
    /\ cpus = MaxCpus
    /\ \E ls \in SeqsUpTo(DefaultLines, MaxLines) :
           doc = TextOfLines(<< <<"l", "l", "a", "m", "a", "_", "c", "l", "i", "_", "p", "a", "t", "h", " ", "=", " ", "\"", "/", "l", "\"">> >> \o ls)
    /\ prev = doc
    /\ op = OpRecord("init", NoMode, "no", <<>>, TRUE, <<>>)
    /\ nops = [saves |-> 0, edits |-> 0]
    /\ procs = AtMenu
    /\ files = NoFiles

\* save_mode_to_config with the answer 'y' to "Set as default mode?"
SaveDefault ==
    /\ nops.saves = 0
    /\ procs[1].pc = "menu"
    /\ \E mode \in SaveInputs(cpus) : SaveMode(mode, "yes")

\* Enter on the empty selection of the menu
EnterDefault ==
    \E spawns \in BOOLEAN, checked \in BOOLEAN : MenuDefault(<<>>, TRUE, spawns, checked)

NextDefault == SaveDefault \/ EnterDefault

SpecDefault == InitDefault /\ [][NextDefault]_vars

\* the record of the entry the save appended, as read_saved_modes decodes it
SavedEntry == DecodeMode(QuotedBody(LastLine(doc)), cpus)[1]

\* C28: after a record was saved and made the default, Enter on the empty
\* selection launches exactly that record, whatever the file held before
\* (malformed, commented or out-of-sequence mode_ lines included)
C28_EnterLaunchesSaved ==
    (op.kind = "menu" /\ nops.saves = 1)
        => \/ op.result.outcome = "ok" /\ op.result.launched /\ op.result.mode = SavedEntry
           \/ op.result.outcome = "err" /\ op.result.msg = "Failed to launch LLaMA"

\* every mode_ line of the file is the line of a record, and the records are
\* numbered 1, 2, .. in the order of the lines
NumberedInSequence ==
    /\ Len(ModePairs(doc)) = ModeLineCount(doc)
    /\ Len(ReadSavedModes(doc, cpus).modes) = ModeLineCount(doc)
    /\ \A i \in 1..Len(ModePairs(doc)) : ModePairs(doc)[i][1] = i

\* the same for files whose mode_ lines all decode and are numbered in sequence
C28_EnterLaunchesSavedInSequence ==
    (op.kind = "menu" /\ nops.saves = 1 /\ NumberedInSequence)
        => \/ op.result.outcome = "ok" /\ op.result.launched /\ op.result.mode = SavedEntry
           \/ op.result.outcome = "err" /\ op.result.msg = "Failed to launch LLaMA"

----------------------------------------------------------------------------
(* Two invocations of the tool save a mode into the same file.            *)
(* save_mode_to_config reads the whole file, waits for the answer to its  *)
(* question, and writes the whole file: the read and the write are two    *)
(* steps, and nothing keeps the other invocation out between them.        *)

\* a save that reads the file again when it writes
HeldContentReread(p) == doc

\* the content an invocation holds in memory between its read and its write
HeldContent(p) == procs[p].config_content

\* the last step of a save and the number each invocation gave its entry
\* (0: it has not written)
RaceRecord(kind, p, ok, nums) == [kind |-> kind, proc |-> p, ok |-> ok, nums |-> nums]

InitRace ==
    /\ cpus \in {1, MaxCpus}
    /\ doc = InitialDoc
    /\ prev = InitialDoc
    /\ op = RaceRecord("init", 0, TRUE, <<0, 0>>)
    /\ nops = [saves |-> 0, edits |-> 0]
    /\ procs = [p \in {1, 2} |-> Invocation("idle", TextOf(<<>>), NoMode, "running", <<>>)]
    /\ files = NoFiles

\* save_mode_to_config, up to the question: fs::read_to_string
SaveRead(p, mode) ==
    /\ procs[p].pc = "idle"
    /\ procs' = [procs EXCEPT ![p] = Invocation("read", doc, mode, "running", <<>>)]
    /\ op' = RaceRecord("read", p, TRUE, op.nums)
    /\ prev' = doc
    /\ UNCHANGED <<files, cpus, doc, nops>>

\* save_mode_to_config, from the answer on: the entry is appended to the
\* content held and fs::write replaces the file
SaveWrite(p, answer) ==
    LET held  == HeldContent(p)
        saved == SaveModeToConfig(held, procs[p].mode, answer)
    IN /\ procs[p].pc = "read"
       /\ doc' = IF saved.ok THEN saved.content ELSE doc
       /\ prev' = doc
       /\ procs' = [procs EXCEPT ![p].pc = "done",
                                 ![p].status = IF saved.ok THEN "ok" ELSE "err"]
       /\ op' = RaceRecord("write", p, saved.ok,
                           IF saved.ok THEN [op.nums EXCEPT ![p] = NewModeNum(held)]
                           ELSE op.nums)
       /\ nops' = IF saved.ok THEN [nops EXCEPT !.saves = @ + 1] ELSE nops
       /\ UNCHANGED <<files, cpus>>

NextRace ==
    \/ \E p \in {1, 2}, mode \in SaveInputs(cpus) : SaveRead(p, mode)
    \/ \E p \in {1, 2}, answer \in Answers : SaveWrite(p, answer)

SpecRace == InitRace /\ [][NextRace]_vars

\* the mode line of an entry
EntryLine(mode, num) == <<"m", "o", "d", "e", "_">> \o IntToStr(num) \o <<" ", "=", " ", "\"">> \o EncodeMode(mode) \o <<"\"">>

\* both invocations have saved, and both had read the file before either wrote
BothReadBeforeWrite ==
    /\ \A p \in {1, 2} : procs[p].pc = "done" /\ procs[p].status = "ok"
    /\ procs[1].config_content = procs[2].config_content

\* C18: lost update.  When two saves both read the file before either
\* writes, both succeed, both give their entry the same number N, and the
\* file holds the later writer's entry only: the earlier writer's entry is
\* gone.
C18_LostUpdate ==
    (BothReadBeforeWrite /\ procs[1].mode # procs[2].mode) =>
        LET later   == op.proc
            earlier == 3 - later
            before  == procs[1].config_content
            N       == ModeLineCount(before) + 1
        IN /\ op.nums = <<N, N>>
           /\ ModeLineCount(doc) = ModeLineCount(before) + 1
           /\ LastLine(doc) = EntryLine(procs[later].mode, N)
           /\ \A i \in 1..Len(Lines(doc)) :
                  Lines(doc)[i] # EntryLine(procs[earlier].mode, N)

\* two saves of different modes that both read before either wrote
C18_Witness ==
    /\ BothReadBeforeWrite
    /\ procs[1].mode # procs[2].mode
    /\ op.kind = "write"
    /\ nops.saves = 2

----------------------------------------------------------------------------
(* Thread counts: a stored record with or without a threads= token is      *)
(* decoded on machines of every CPU count                                   *)

MaxThreads == 8

\* integers a threads= token can carry
ThreadValues == (0 - 3)..MaxThreads

\* the threads= token of a stored record, with its separator
ThreadToken(v) == <<"|", "t", "h", "r", "e", "a", "d", "s", "=">> \o IntToStr(v)

\* what stands between the paths and the name: nothing, a token with an
\* integer, a token whose value is no integer
ThreadTexts == {<<>>, <<"|", "t", "h", "r", "e", "a", "d", "s", "=", "a", "b", "c">>} \cup {ThreadToken(v) : v \in ThreadValues}

\* the file holding the one record
ThreadDoc(text) == TextOf(<<"m", "o", "d", "e", "_", "1", " ", "=", " ", "\"", "/", "m", "|", "/", "p">> \o text \o <<"|", "n", "|", "d", "\"", "\n">>)

\* cpus = 0: thread::available_parallelism fails
InitThreads ==
    /\ cpus \in 0..MaxCpus
    /\ \E text \in ThreadTexts : doc = ThreadDoc(text)
    /\ prev = doc
    /\ op = OpRecord("init", NoMode, "no", <<>>, TRUE, <<>>)
    /\ nops = [saves |-> 0, edits |-> 0]
    /\ procs = AtMenu
    /\ files = NoFiles

NextThreads == ReadModes

SpecThreads == InitThreads /\ [][NextThreads]_vars

\* C21: for every detected CPU count of at least 1 the default thread_count
\* is that count minus one and never less than 1, and a record decoded from a
\* text without a threads= token carries this default
C21_DefaultThreadCount ==
    (cpus >= 1 /\ op.kind = "read" /\ doc = ThreadDoc(<<>>))
        => /\ Len(op.modes) = 1
           /\ DefaultParameters(cpus).thread_count = (IF cpus - 1 < 1 THEN 1 ELSE cpus - 1)
           /\ op.modes[1].parameters.thread_count = DefaultParameters(cpus).thread_count
           /\ op.modes[1].parameters.thread_count >= 1

C21_Witness ==
    /\ cpus = 1
    /\ op.kind = "read"
    /\ doc = ThreadDoc(<<>>)
    /\ Len(op.modes) = 1
    /\ op.modes[1].parameters.thread_count = 1

\* the count validate_thread_count is meant to produce: v held between 1 and
\* the CPU count
ClampToCpus(v, n) == IF v < 1 THEN 1 ELSE IF v > n THEN n ELSE v

\* C27: for every integer v of the threads= token and every CPU count of at
\* least 1 the decoded thread_count is v held between 1 and the CPU count
C27_ThreadCountWithinCpus ==
    (cpus >= 1 /\ op.kind = "read")
        => \A v \in ThreadValues :
               doc = ThreadDoc(ThreadToken(v))
                   => /\ Len(op.modes) = 1
                      /\ op.modes[1].parameters.thread_count = ClampToCpus(v, cpus)

\* the same on machines with at least two CPUs
C27_ThreadCountWithinCpusFromTwo ==
    (cpus >= 2 /\ op.kind = "read")
        => \A v \in ThreadValues :
               doc = ThreadDoc(ThreadToken(v))
                   => /\ Len(op.modes) = 1
                      /\ op.modes[1].parameters.thread_count = ClampToCpus(v, cpus)

----------------------------------------------------------------------------
(* Value cleaning: both lookups on a one-line file whose value is written  *)
(* with up to MaxQuotes double quotes on each side                          *)

MaxQuotes == 2

\* k double quotes
Quotes(k) == [i \in 1..k |-> "\""]

\* what is written between the quotes
QuotedCores == { <<"x">>, <<" ", "x", " ", "y", " ">> }

\* keys of the one line: a scalar field and a numbered field
CleanKeys == { <<"d", "e", "f", "a", "u", "l", "t", "_", "m", "o", "d", "e">>, <<"m", "o", "d", "e", "_", "1">> }

\* the one-line file  key = <i quotes>core<j quotes>
CleanDoc(key, i, core, j) ==
    TextOfLines(<< key \o <<" ", "=", " ">> \o Quotes(i) \o core \o Quotes(j) >>)

InitClean ==
    /\ cpus = MaxCpus
    /\ \E key \in CleanKeys, core \in QuotedCores, i \in 0..MaxQuotes, j \in 0..MaxQuotes :
           doc = CleanDoc(key, i, core, j)
    /\ prev = doc
    /\ op = OpRecord("init", NoMode, "no", <<>>, TRUE, <<>>)
    /\ nops = [saves |-> 0, edits |-> 0]
    /\ procs = AtMenu
    /\ files = NoFiles

NextClean ==
    \/ \E field_name \in FieldNames, opens \in BOOLEAN : ReadField(field_name, opens)
    \/ \E base_name \in BaseNames, opens \in BOOLEAN : ReadBasename(base_name, opens)

SpecClean == InitClean /\ [][NextClean]_vars

\* the text right of the first '=', trimmed, with one layer of surrounding
\* double quotes and one layer of surrounding whitespace taken off
OneLayerStripped(value) ==
    LET t == Trim(value)
    IN IF Len(t) >= 2 /\ t[1] = "\"" /\ t[Len(t)] = "\""
       THEN Trim(SubSeq(t, 2, Len(t) - 1))
       ELSE t

\* C26: both lookups return the text right of the first '=' with exactly one
\* layer of surrounding double quotes stripped: a second layer of quotes and
\* a quote of the content at the start or the end of the value stay
C26_OneLayerStripped ==
    LET parts == SplitN2(doc.lines[1], "=")
        key   == Trim(parts[1])
        value == parts[2]
    IN /\ (op.kind = "field" /\ op.opens /\ op.name = key)
              => op.result = OneLayerStripped(value)
       /\ (op.kind = "basename" /\ op.opens /\ op.name \o <<"_", "1">> = key)
              => op.result = << OneLayerStripped(value) >>

\* the same for values with at most one layer of quotes around a content that
\* neither starts nor ends with a double quote
C26_OneLayerStrippedOfOne ==
    LET parts == SplitN2(doc.lines[1], "=")
        key   == Trim(parts[1])
        value == parts[2]
        t     == OneLayerStripped(value)
    IN (t = <<>> \/ (t[1] # "\"" /\ t[Len(t)] # "\""))
           => /\ (op.kind = "field" /\ op.opens /\ op.name = key)
                     => op.result = t
              /\ (op.kind = "basename" /\ op.opens /\ op.name \o <<"_", "1">> = key)
                     => op.result = << t >>

----------------------------------------------------------------------------
(* The setup: the configuration the wizard's result is written as, the     *)
(* validation of its directories, and the backup of an existing file       *)

\* directories per list of a wizard result
MaxDirs == 2

\* runs of the setup
MaxSetups == 1

\* paths the user enters
DirNames == { <<"/", "a">>, <<"/", "b">> }

\* what a path can be: nothing, a file, a directory that cannot be listed
\* (no read permission), a directory in which no file can be created, a
\* directory without and with .gguf files
DirKinds == {"missing", "file", "unlistable", "readonly", "empty", "models"}

\* what the calls of validate_query_gguf_directories find for a path of a kind
DirAttributes(kind) ==
    [exists   |-> kind # "missing",
     is_dir   |-> kind \notin {"missing", "file"},
     lists    |-> kind \in {"readonly", "empty", "models"},
     has_gguf |-> kind = "models",
     writable |-> kind \in {"unlistable", "empty", "models"}]

\* the attributes of a path in a file system
AttributesOf(fs, path) ==
    DirAttributes(IF path \in DOMAIN fs.dirs THEN fs.dirs[path] ELSE "missing")

SetupWizardResult(gguf_model_directories, prompt_file_directories, log_directory_path, logging_enabled, llama_cpp_directory) ==
    [gguf_model_directories  |-> gguf_model_directories,
     prompt_file_directories |-> prompt_file_directories,
     log_directory_path      |-> log_directory_path,
     logging_enabled         |-> logging_enabled,
     llama_cpp_directory     |-> llama_cpp_directory]

\* the lines  key_<i+1> = "path"  of a list of paths, from index i on
RECURSIVE NumberedPathLines(_, _, _)
NumberedPathLines(key, paths, i) ==
    IF i > Len(paths) THEN <<>>
    ELSE key \o IntToStr(i) \o <<" ", "=", " ", "\"">> \o paths[i] \o <<"\"", "\n">>
         \o NumberedPathLines(key, paths, i + 1)

\* generate_toml_config
GenerateTomlConfig(wizard_result) ==
    TextOf(<<"#", " ", "Q", "u", "e", "r", "y", "G", "G", "U", "F", " ", "C", "o", "n", "f", "i", "g", "u", "r", "a", "t", "i", "o", "n", " ", "F", "i", "l", "e", "\n", "\n">>
           \o <<"l", "l", "a", "m", "a", "_", "c", "l", "i", "_", "p", "a", "t", "h", " ", "=", " ", "\"">> \o wizard_result.llama_cpp_directory \o <<"\"", "\n", "\n">>
           \o <<"l", "o", "g", "g", "i", "n", "g", "_", "e", "n", "a", "b", "l", "e", "d", " ", "=", " ">> \o BoolToStr(wizard_result.logging_enabled) \o <<"\n">>
           \o (IF wizard_result.logging_enabled
               THEN <<"l", "o", "g", "_", "d", "i", "r", "e", "c", "t", "o", "r", "y", "_", "p", "a", "t", "h", " ", "=", " ", "\"">> \o wizard_result.log_directory_path \o <<"\"", "\n", "\n">>
               ELSE <<>>)
           \o NumberedPathLines(<<"g", "g", "u", "f", "_", "m", "o", "d", "e", "l", "_", "d", "i", "r", "e", "c", "t", "o", "r", "y", "_">>, wizard_result.gguf_model_directories, 1)
           \o <<"\n">>
           \o NumberedPathLines(<<"p", "r", "o", "m", "p", "t", "_", "f", "i", "l", "e", "_", "d", "i", "r", "e", "c", "t", "o", "r", "y", "_">>, wizard_result.prompt_file_directories, 1)
           \o <<"p", "r", "o", "m", "p", "t", "_", "d", "i", "r", "e", "c", "t", "o", "r", "y", " ", "=", " ", "\"", "p", "r", "o", "m", "p", "t", "s", "\"", "\n", "\n">>
           \o <<"#", " ", "C", "o", "n", "f", "i", "g", "u", "r", "a", "t", "i", "o", "n", " ", "E", "x", "a", "m", "p", "l", "e", "s", ":", "\n">>
           \o <<"#", " ", "A", "d", "d", "i", "t", "i", "o", "n", "a", "l", " ", "m", "o", "d", "e", "l", " ", "d", "i", "r", "e", "c", "t", "o", "r", "i", "e", "s", " ", "c", "a", "n", " ", "b", "e", " ", "a", "d", "d", "e", "d", " ", "a", "s", ":", "\n">>
           \o <<"#", " ", "g", "g", "u", "f", "_", "m", "o", "d", "e", "l", "_", "d", "i", "r", "e", "c", "t", "o", "r", "y", "_", "2", " ", "=", " ", "\"", "/", "p", "a", "t", "h", "/", "t", "o", "/", "m", "o", "r", "e", "/", "m", "o", "d", "e", "l", "s", "\"", "\n">>
           \o <<"#", " ", "g", "g", "u", "f", "_", "m", "o", "d", "e", "l", "_", "d", "i", "r", "e", "c", "t", "o", "r", "y", "_", "3", " ", "=", " ", "\"", "/", "a", "n", "o", "t", "h", "e", "r", "/", "p", "a", "t", "h", "/", "t", "o", "/", "m", "o", "d", "e", "l", "s", "\"", "\n", "\n">>
           \o <<"#", " ", "A", "d", "d", "i", "t", "i", "o", "n", "a", "l", " ", "p", "r", "o", "m", "p", "t", " ", "d", "i", "r", "e", "c", "t", "o", "r", "i", "e", "s", " ", "c", "a", "n", " ", "b", "e", " ", "a", "d", "d", "e", "d", " ", "a", "s", ":", "\n">>
           \o <<"#", " ", "p", "r", "o", "m", "p", "t", "_", "d", "i", "r", "e", "c", "t", "o", "r", "y", "_", "2", " ", "=", " ", "\"", "/", "p", "a", "t", "h", "/", "t", "o", "/", "m", "o", "r", "e", "/", "p", "r", "o", "m", "p", "t", "s", "\"", "\n">>
           \o <<"#", " ", "p", "r", "o", "m", "p", "t", "_", "d", "i", "r", "e", "c", "t", "o", "r", "y", "_", "3", " ", "=", " ", "\"", "/", "a", "n", "o", "t", "h", "e", "r", "/", "p", "a", "t", "h", "/", "t", "o", "/", "p", "r", "o", "m", "p", "t", "s", "\"", "\n", "\n">>
           \o <<"#", " ", "e", "x", "a", "m", "p", "l", "e", " ", "l", "l", "a", "m", "a", ".", "c", "p", "p", " ", "l", "l", "a", "m", "a", "-", "c", "l", "i", " ", "p", "a", "t", "h", ":", "\n">>
           \o <<"#", " ", "l", "l", "a", "m", "a", "_", "c", "l", "i", "_", "p", "a", "t", "h", " ", "=", " ", "\"", "/", "h", "o", "m", "e", "/", "o", "o", "p", "s", "y", "/", "l", "l", "a", "m", "a", ".", "c", "p", "p", "/", "b", "u", "i", "l", "d", "/", "b", "i", "n", "/", "l", "l", "a", "m", "a", "-", "c", "l", "i", "\"", "\n">>
           \o <<"#", " ", "S", "a", "v", "e", "d", " ", "m", "o", "d", "e", "s", " ", "w", "i", "l", "l", " ", "a", "p", "p", "e", "a", "r", " ", "a", "s", ":", "\n">>
           \o <<"#", " ", "m", "o", "d", "e", "_", "1", " ", "=", " ", "\"", "m", "o", "d", "e", "l", "_", "p", "a", "t", "h", "|", "p", "r", "o", "m", "p", "t", "_", "p", "a", "t", "h", "|", "t", "e", "m", "p", "=", "0", ".", "8", "|", "t", "o", "p", "_", "k", "=", "4", "0", "|", "d", "e", "s", "c", "r", "i", "p", "t", "i", "o", "n", "\"", "\n", "\n">>)

\* a Result of the validation: Ok, or Err with the message's text and the
\* path it names; warned lists the model directories a warning was printed
\* for, and files is the file system after the call
Validation(ok, msg, path, warned, fs) ==
    [ok |-> ok, msg |-> msg, path |-> path, warned |-> warned, files |-> fs]

\* a validation that does not look at the prompt directories
ValidateWithoutPromptDirectories(wizard_result, fs) ==
    LET models == wizard_result.gguf_model_directories
        log    == wizard_result.log_directory_path
        bad_models == {i \in 1..Len(models) :
                           LET a == AttributesOf(fs, models[i])
                           IN ~a.exists \/ ~a.is_dir \/ ~a.lists}
        checked == IF bad_models = {} THEN Len(models) ELSE MinOf(bad_models)
        noGguf(path) == ~AttributesOf(fs, path).has_gguf /\ AttributesOf(fs, path).lists
        warned == SelectSeq(SubSeq(models, 1, checked), noGguf)
    IN IF bad_models # {}
       THEN LET a == AttributesOf(fs, models[checked])
            IN IF ~a.exists \/ ~a.is_dir
               THEN Validation(FALSE, "Invalid model directory path", models[checked], warned, fs)
               ELSE Validation(FALSE, "Failed to read directory", models[checked], warned, fs)
       ELSE IF wizard_result.logging_enabled
       THEN LET a == AttributesOf(fs, log)
            IN IF ~a.exists \/ ~a.is_dir
               THEN Validation(FALSE, "Invalid log directory path", log, warned, fs)
               ELSE IF ~a.writable
               THEN Validation(FALSE, "Cannot write to log directory", log, warned, fs)
               ELSE Validation(TRUE, "", <<>>, warned, fs)
       ELSE Validation(TRUE, "", <<>>, warned, fs)

\* validate_query_gguf_directories in a file system: the model directories
\* in order, then the prompt directories in order, then the log directory.
\* The write test creates query_gguf_write_test.tmp in the log directory and
\* removes it again.
ValidateQueryGgufDirectories(wizard_result, fs) ==
    LET models  == wizard_result.gguf_model_directories
        prompts == wizard_result.prompt_file_directories
        log     == wizard_result.log_directory_path
        bad_models == {i \in 1..Len(models) :
                           LET a == AttributesOf(fs, models[i])
                           IN ~a.exists \/ ~a.is_dir \/ ~a.lists}
        bad_prompts == {i \in 1..Len(prompts) :
                            LET a == AttributesOf(fs, prompts[i])
                            IN ~a.exists \/ ~a.is_dir}
        checked == IF bad_models = {} THEN Len(models) ELSE MinOf(bad_models)
        noGguf(path) == ~AttributesOf(fs, path).has_gguf /\ AttributesOf(fs, path).lists
        warned == SelectSeq(SubSeq(models, 1, checked), noGguf)
    IN IF bad_models # {}
       THEN LET a == AttributesOf(fs, models[checked])
            IN IF ~a.exists \/ ~a.is_dir
               THEN Validation(FALSE, "Invalid model directory path", models[checked], warned, fs)
               ELSE Validation(FALSE, "Failed to read directory", models[checked], warned, fs)
       ELSE IF bad_prompts # {}
       THEN Validation(FALSE, "Invalid prompt directory path",
                       prompts[MinOf(bad_prompts)], warned, fs)
       ELSE IF wizard_result.logging_enabled
       THEN LET a == AttributesOf(fs, log)
            IN IF ~a.exists \/ ~a.is_dir
               THEN Validation(FALSE, "Invalid log directory path", log, warned, fs)
               ELSE IF ~a.writable
               THEN Validation(FALSE, "Cannot write to log directory", log, warned, fs)
               ELSE LET written == [fs EXCEPT !.tmp = @ \cup {log}]
                    IN Validation(TRUE, "", <<>>, warned,
                                  [written EXCEPT !.tmp = @ \ {log}])
       ELSE Validation(TRUE, "", <<>>, warned, fs)

\* a backup that reports success without copying the file
BackupExistingConfigSkipped(content, fs, copies) == [ok |-> TRUE, files |-> fs]

\* backup_existing_config: the file is copied to query_gguf_config_<seconds>
\* .toml.bak, replacing a backup of the same second (copies: fs::copy succeeds)
BackupExistingConfig(content, fs, copies) ==
    IF ~fs.config THEN [ok |-> TRUE, files |-> fs]
    ELSE IF ~copies THEN [ok |-> FALSE, files |-> fs]
    ELSE [ok |-> TRUE,
          files |-> [fs EXCEPT !.backups = {b \in @ : b.time # fs.clock}
                                            \cup {[time |-> fs.clock, content |-> content]}]]

\* the Result of handle_query_gguf_setup with the step it returned from, the
\* content of the configuration file and the file system after it
SetupResult(ok, step, content, fs) ==
    [ok |-> ok, step |-> step, content |-> content, files |-> fs]

\* handle_query_gguf_setup.  answer: what prompt_yes_no returns; copies:
\* fs::copy succeeds; blank: create_blank_prompt succeeds; wizard: the result
\* of run_query_gguf_setup_wizard, <<>> for Err; writes: fs::write of the
\* configuration succeeds ("ok"), fails leaving the file as it was ("refused")
\* or fails after truncating it ("truncated")
HandleQueryGgufSetup(content, fs, answer, copies, blank, wizard, writes) ==
    LET backup == IF fs.config /\ answer = "yes"
                  THEN BackupExistingConfig(content, fs, copies)
                  ELSE [ok |-> TRUE, files |-> fs]
        validation == ValidateQueryGgufDirectories(wizard[1], backup.files)
    IN IF fs.config /\ answer = "no" THEN SetupResult(TRUE, "kept", content, fs)
       ELSE IF fs.config /\ answer = "err" THEN SetupResult(FALSE, "prompt", content, fs)
       ELSE IF ~backup.ok THEN SetupResult(FALSE, "backup", content, fs)
       ELSE IF ~blank THEN SetupResult(FALSE, "blank prompt", content, backup.files)
       ELSE IF wizard = <<>> THEN SetupResult(FALSE, "wizard", content, backup.files)
       ELSE IF ~validation.ok THEN SetupResult(FALSE, "validation", content, validation.files)
       ELSE IF writes = "refused" THEN SetupResult(FALSE, "save", content, validation.files)
       ELSE IF writes = "truncated"
       THEN SetupResult(FALSE, "save", TextOf(<<>>), [validation.files EXCEPT !.config = TRUE])
       ELSE SetupResult(TRUE, "saved", GenerateTomlConfig(wizard[1]),
                        [validation.files EXCEPT !.config = TRUE])

\* wizard results the unit-level checks run on: up to MaxDirs directories per
\* list, logging off or on with a log directory
SetupInputs ==
    { SetupWizardResult(models, prompts, log, log # <<>>, <<"/", "l">>) :
          models \in SeqsUpTo(DirNames, MaxDirs),
          prompts \in SeqsUpTo(DirNames, MaxDirs),
          log \in DirNames \cup {<<>>} }

\* results of the wizard: at least one model directory, at most one prompt
\* directory
WizardResults ==
    { SetupWizardResult(<< <<"/", "a">> >>, <<>>, <<>>, FALSE, <<"/", "l">>),
      SetupWizardResult(<< <<"/", "a">>, <<"/", "b">> >>, << <<"/", "b">> >>, <<"/", "b">>, TRUE, <<"/", "l">>) }

\* a step of the setup: its inputs, the file system before it and what it
\* returned
SetupRecord(kind, wizard_result, answer, before, result) ==
    [kind |-> kind, wizard_result |-> wizard_result, answer |-> answer,
     before |-> before, result |-> result]

InitSetup ==
    /\ cpus = MaxCpus
    /\ \E config \in BOOLEAN, dirs \in [DirNames -> DirKinds] :
           /\ files = FileSystem(config, dirs, {}, 0, {})
           /\ doc = IF config THEN InitialDoc ELSE TextOf(<<>>)
    /\ prev = doc
    /\ op = OpRecord("init", NoMode, "no", <<>>, TRUE, <<>>)
    /\ nops = [saves |-> 0, edits |-> 0]
    /\ procs = AtMenu

\* generate_toml_config is applied to a wizard result; it does not look at
\* the file system, so one file system is enough
Generate(wizard_result) ==
    /\ op.kind = "init"
    /\ ~files.config
    /\ files.dirs = [path \in DirNames |-> "models"]
    /\ op' = SetupRecord("generate", wizard_result, "no", files,
                         GenerateTomlConfig(wizard_result))
    /\ prev' = doc
    /\ UNCHANGED <<files, cpus, doc, nops, procs>>

\* validate_query_gguf_directories is applied to a wizard result
Validate(wizard_result) ==
    LET result == ValidateQueryGgufDirectories(wizard_result, files)
    IN /\ op.kind = "init"
       /\ op' = SetupRecord("validate", wizard_result, "no", files, result)
       /\ files' = result.files
       /\ prev' = doc
       /\ UNCHANGED <<cpus, doc, nops, procs>>

\* a run of handle_query_gguf_setup; the clock may pass to the next second
\* before the next run (tick)
Setup(answer, copies, blank, wizard, writes, tick) ==
    LET result == HandleQueryGgufSetup(doc, files, answer, copies, blank, wizard, writes)
    IN /\ op.kind \in {"init", "setup"}
       /\ nops.saves < MaxSetups
       /\ op' = SetupRecord("setup", wizard, answer, files, result)
       /\ doc' = result.content
       /\ files' = [result.files EXCEPT !.clock = IF tick THEN @ + 1 ELSE @]
       /\ prev' = doc
       /\ nops' = [nops EXCEPT !.saves = @ + 1]
       /\ UNCHANGED <<cpus, procs>>

NextSetup ==
    \/ \E wizard_result \in SetupInputs : Generate(wizard_result)
    \/ \E wizard_result \in SetupInputs : Validate(wizard_result)
    \/ \E answer \in Answers, copies \in BOOLEAN, blank \in BOOLEAN,
          wizard \in {<<>>} \cup {<<w>> : w \in WizardResults},
          writes \in {"ok", "refused", "truncated"}, tick \in BOOLEAN :
           Setup(answer, copies, blank, wizard, writes, tick)

SpecSetup == InitSetup /\ [][NextSetup]_vars

\* the keys of the configuration schema
IsSchemaKey(key) ==
    \/ key \in { <<"l", "l", "a", "m", "a", "_", "c", "l", "i", "_", "p", "a", "t", "h">>, <<"l", "o", "g", "g", "i", "n", "g", "_", "e", "n", "a", "b", "l", "e", "d">>, <<"l", "o", "g", "_", "d", "i", "r", "e", "c", "t", "o", "r", "y", "_", "p", "a", "t", "h">>,
                <<"p", "r", "o", "m", "p", "t", "_", "d", "i", "r", "e", "c", "t", "o", "r", "y">>, <<"d", "e", "f", "a", "u", "l", "t", "_", "m", "o", "d", "e">> }
    \/ \E prefix \in { <<"g", "g", "u", "f", "_", "m", "o", "d", "e", "l", "_", "d", "i", "r", "e", "c", "t", "o", "r", "y", "_">>, <<"m", "o", "d", "e", "_">> } :
           /\ StartsWith(key, prefix)
           /\ ParseUsize(SubSeq(key, Len(prefix) + 1, Len(key))) # <<>>
           /\ ParseUsize(SubSeq(key, Len(prefix) + 1, Len(key))) # <<0>>

\* the lines of a text that assign a value: not blank, not a comment, with '='
IsAssignment(line) ==
    Trim(line) # <<>> /\ ~StartsWith(Trim(line), <<"#">>) /\ Contains(line, "=")

\* the document holds the paths and the flag of the wizard result, and
\* reading gguf_model_directory back returns the model directories in order
HoldsWizardResult(out, w) ==
    LET ls == Lines(out)
        has(line) == \E i \in 1..Len(ls) : ls[i] = line
    IN /\ has(<<"l", "l", "a", "m", "a", "_", "c", "l", "i", "_", "p", "a", "t", "h", " ", "=", " ", "\"">> \o w.llama_cpp_directory \o <<"\"">>)
       /\ has(<<"l", "o", "g", "g", "i", "n", "g", "_", "e", "n", "a", "b", "l", "e", "d", " ", "=", " ">> \o BoolToStr(w.logging_enabled))
       /\ \A k \in 1..Len(w.gguf_model_directories) :
              has(<<"g", "g", "u", "f", "_", "m", "o", "d", "e", "l", "_", "d", "i", "r", "e", "c", "t", "o", "r", "y", "_">> \o IntToStr(k) \o <<" ", "=", " ", "\"">>
                  \o w.gguf_model_directories[k] \o <<"\"">>)
       /\ \A k \in 1..Len(w.prompt_file_directories) :
              \E i \in 1..Len(ls) :
                  /\ IsAssignment(ls[i])
                  /\ CleanValue(SplitN2(ls[i], "=")[2]) = w.prompt_file_directories[k]
       /\ w.logging_enabled
              => has(<<"l", "o", "g", "_", "d", "i", "r", "e", "c", "t", "o", "r", "y", "_", "p", "a", "t", "h", " ", "=", " ", "\"">> \o w.log_directory_path \o <<"\"">>)
       /\ ReadBasenameFieldsFromToml(out, <<"g", "g", "u", "f", "_", "m", "o", "d", "e", "l", "_", "d", "i", "r", "e", "c", "t", "o", "r", "y">>, TRUE)
              = w.gguf_model_directories

\* C22: for every wizard result the generated document holds the llama-cli
\* path, the logging flag, every model directory as gguf_model_directory_<i>
\* numbered from 1 in input order, every prompt directory and, with logging
\* on, the log directory; it assigns only keys of the configuration schema,
\* and gguf_model_directory reads back as the model directories in order
C22_GeneratedDocument ==
    op.kind = "generate"
        => /\ HoldsWizardResult(op.result, op.wizard_result)
           /\ \A i \in 1..Len(Lines(op.result)) :
                  IsAssignment(Lines(op.result)[i])
                      => IsSchemaKey(KeyOfLine(Lines(op.result)[i]))

\* the same without the restriction to the keys of the schema
C22_GeneratedContent ==
    op.kind = "generate" => HoldsWizardResult(op.result, op.wizard_result)

\* the conditions the validation is to test, in the order it tests them:
\* what Err says when the condition is violated, the path, and whether it
\* holds.  listing: a model directory must also be listable
ValidationConditions(w, fs, listing) ==
    LET models  == w.gguf_model_directories
        prompts == w.prompt_file_directories
        cond(msg, path, holds) == [msg |-> msg, path |-> path, holds |-> holds]
        ofModels == [i \in 1..(2 * Len(models)) |->
                        LET path == models[(i + 1) \div 2]
                            a == AttributesOf(fs, path)
                        IN IF i % 2 = 1
                           THEN cond("Invalid model directory path", path, a.exists /\ a.is_dir)
                           ELSE cond("Failed to read directory", path, ~listing \/ a.lists)]
        ofPrompts == [i \in 1..Len(prompts) |->
                         LET a == AttributesOf(fs, prompts[i])
                         IN cond("Invalid prompt directory path", prompts[i],
                                 a.exists /\ a.is_dir)]
        a == AttributesOf(fs, w.log_directory_path)
        ofLog == IF w.logging_enabled
                 THEN << cond("Invalid log directory path", w.log_directory_path,
                              a.exists /\ a.is_dir),
                         cond("Cannot write to log directory", w.log_directory_path,
                              a.writable) >>
                 ELSE <<>>
    IN ofModels \o ofPrompts \o ofLog

\* the result is Ok exactly when every condition holds, Err names the first
\* violated condition, Ok comes with a warning for each model directory
\* without .gguf files, and no write-test file is left
ValidatesBy(result, conditions, w, fs) ==
    LET violated == {i \in 1..Len(conditions) : ~conditions[i].holds}
        noGguf(path) == ~AttributesOf(fs, path).has_gguf
    IN /\ result.ok <=> violated = {}
       /\ ~result.ok /\ violated # {}
              => /\ result.msg = conditions[MinOf(violated)].msg
                 /\ result.path = conditions[MinOf(violated)].path
       /\ result.ok => result.warned = SelectSeq(w.gguf_model_directories, noGguf)
       /\ result.files.tmp = {}

\* C23 as stated: validate_query_gguf_directories returns Ok exactly when
\* every model and prompt directory exists and is a directory and, with
\* logging on, the log directory exists, is a directory and is writable; a
\* model directory without .gguf files only gives a warning, the first
\* violated condition yields Err, and the write-test file is removed again
C23_ValidationAsStated ==
    op.kind = "validate"
        => ValidatesBy(op.result,
                       ValidationConditions(op.wizard_result, op.before, FALSE),
                       op.wizard_result, op.before)

\* C23 amended: Ok also requires that every model directory can be listed
\* (fs::read_dir succeeds); a model directory that exists but cannot be
\* listed yields Err "Failed to read directory"
C23_ValidationWithListing ==
    op.kind = "validate"
        => ValidatesBy(op.result,
                       ValidationConditions(op.wizard_result, op.before, TRUE),
                       op.wizard_result, op.before)

C23_Witness ==
    /\ op.kind = "validate"
    /\ op.result.ok
    /\ op.wizard_result.logging_enabled
    /\ op.wizard_result.prompt_file_directories # <<>>
    /\ op.result.warned # <<>>

\* C25: handle_query_gguf_setup never loses an existing configuration: when
\* it overwrites an existing file, a backup with the prior content was made
\* in the same run; when the user declines, or the prompt, the backup, the
\* blank prompt, the wizard or the validation fails, the file is unchanged
C25_ConfigNeverLost ==
    (op.kind = "setup" /\ op.before.config)
        => /\ (op.result.step = "saved" \/ doc # prev)
                  => \E b \in files.backups :
                         b.content = prev /\ b.time = op.before.clock
           /\ (op.answer = "no" \/ op.result.step \in {"kept", "prompt", "backup",
                                                       "blank prompt", "wizard", "validation"})
                  => doc = prev /\ files.config

C25_Witness ==
    /\ op.kind = "setup"
    /\ op.before.config
    /\ op.result.step = "saved"
    /\ doc # prev
    /\ \E b \in files.backups : b.content = prev

============================================================================
